---- MODULE Spec2Model ----
(***************************************************************************)
(* FirmSwap settlement engine (contracts/src/FirmSwap.sol) as a state      *)
(* machine: one action per external entry point, each action a whole       *)
(* transaction (it either completes or reverts, a revert leaves the state  *)
(* unchanged and is therefore no step).                                    *)
(*                                                                         *)
(* Amounts are counted in lots of 50_000 smallest token units, the bond    *)
(* reservation of an order of MIN_ORDER: MIN_ORDER = 1e6 = 20 lots,        *)
(* MIN_BOND = 1_000e6 = 20_000 lots.  Every output amount of the model is  *)
(* a multiple of 20 lots, so outputAmount * 500 / 10_000 is computed       *)
(* without a rounding the contract would not make.                         *)
(***************************************************************************)
EXTENDS Integers, Sequences, FiniteSets, TLC

\* ------------------------------------------------------------------------
\*  Constants of the contract
\* ------------------------------------------------------------------------
MIN_BOND == 20000
MIN_ORDER == 20
BOND_RESERVATION_BPS == 500
UNSTAKE_DELAY == 604800
CHAIN_ID == 100
\* NonceManager.initialize scans the nonces below this.
NONCE_SCAN_WINDOW == 1000

\* ------------------------------------------------------------------------
\*  Bounds of the model
\* ------------------------------------------------------------------------
\* The clock stops here.
MaxTime == 604900
\* Deepest nesting of engine calls in one call chain.
MaxCallDepth == 3
\* Deposited events handed to the filler.
MaxDeposited == 3
\* POST /quote requests the solver server receives.
MaxQuoteRequests == 3
\* The nonces cancelled on chain before the solver starts lie below this.
MaxChainNonce == 2
\* Blocks mined.
MaxBlock == 2
\* Calls of Monitor.poll in flight at one time.
MaxPolls == 2
\* Calls of SolverRegistry.register in flight at one time.
MaxRegistrations == 2
\* Solvers one quote cycle calls.
MaxCalls == 2
\* The API host's clock stops here (milliseconds).
MaxClock == 6000

\* ------------------------------------------------------------------------
\*  Accounts, tokens, quotes
\* ------------------------------------------------------------------------
ZERO_ADDRESS == "0x0"
FIRM_SWAP == "firmSwap"
Accounts == {"user", "solver", "anyone"}
\* Accounts that use the solver-management entry points.
SolverAccounts == {"solver"}

\* BRLA is a plain ERC-20, FOT charges a fee on every transfer, USDC is the
\* bond token and the output token of every quote.
Tokens == {"BRLA", "FOT", "USDC"}
BOND_TOKEN == "USDC"
FOT_FEE_BPS == 5000

\* The signed quotes in circulation.  A quote id stands for one
\* (quote, solverSignature) pair; signer is the account the signature
\* recovers to.
Quotes == <<
  \* 1: the default quote
  [solver |-> "solver", user |-> "user", inputToken |-> "BRLA", inputAmount |-> 2,
   outputToken |-> "USDC", outputAmount |-> MIN_ORDER, outputChainId |-> CHAIN_ID,
   depositDeadline |-> 100, fillDeadline |-> 101, nonce |-> 0, signer |-> "solver"],
  \* 2: input token charges a fee on transfer; its fill deadline is later
  \* than the others', so its order is still open when theirs have expired
  [solver |-> "solver", user |-> "user", inputToken |-> "FOT", inputAmount |-> 2,
   outputToken |-> "USDC", outputAmount |-> MIN_ORDER, outputChainId |-> CHAIN_ID,
   depositDeadline |-> 100, fillDeadline |-> 102, nonce |-> 1, signer |-> "solver"],
  \* 3: a large order, its reservation is the whole minimum bond
  [solver |-> "solver", user |-> "user", inputToken |-> "BRLA", inputAmount |-> 1,
   outputToken |-> "USDC", outputAmount |-> 20 * MIN_BOND, outputChainId |-> CHAIN_ID,
   depositDeadline |-> 100, fillDeadline |-> 101, nonce |-> 256, signer |-> "solver"],
  \* 4: a different quote reusing nonce 0
  [solver |-> "solver", user |-> "user", inputToken |-> "BRLA", inputAmount |-> 1,
   outputToken |-> "USDC", outputAmount |-> MIN_ORDER, outputChainId |-> CHAIN_ID,
   depositDeadline |-> 100, fillDeadline |-> 101, nonce |-> 0, signer |-> "solver"],
  \* 5: signature of somebody who is not quote.solver
  [solver |-> "solver", user |-> "user", inputToken |-> "BRLA", inputAmount |-> 2,
   outputToken |-> "USDC", outputAmount |-> MIN_ORDER, outputChainId |-> CHAIN_ID,
   depositDeadline |-> 100, fillDeadline |-> 101, nonce |-> 2, signer |-> "anyone"]
>>
QuoteIds == DOMAIN Quotes

\* OrderLib.computeOrderId: one id per (quote, signature) pair.
computeOrderId(id) == id
\* OrderLib.computeDepositAddress: the CREATE2 address of the order's proxy.
DepositAddresses == <<"dep1", "dep2", "dep3", "dep4", "dep5">>
computeDepositAddress(orderId) == DepositAddresses[orderId]

Holders == Accounts \cup {FIRM_SWAP} \cup {DepositAddresses[i] : i \in QuoteIds}

\* ------------------------------------------------------------------------
\*  State
\* ------------------------------------------------------------------------
VARIABLES
  orders,            \* orderId -> Order
  solvers,           \* address -> SolverInfo
  nonceBitmap,       \* address -> set of <<wordPos, bitPos>> whose bit is set
  excessBalances,    \* user -> token -> amount
  balanceOf,         \* token -> holder -> amount (the ERC-20 ledgers)
  proxyDeployed,     \* orderId -> a DepositProxy exists at the deposit address
  now,               \* block.timestamp
  fundedAtFillDeadline, \* history: the quotes whose deposit address held the
                     \* full input amount when their fillDeadline passed
  openEvents,        \* history: the order ids of the Open events emitted
  reentrancyStatus,  \* ReentrancyGuard._status
  callStack,         \* entry points of the engine in flight in one call chain
  pendingFills,      \* Filler.pendingFills: the order ids awaiting their fill
  fillQueue,         \* Filler.fillQueue: the job whose promise ends the chain (0: resolved)
  fillJobs,          \* the calls of Filler.fill chained so far, in order of chaining
  depositedSeen,     \* the number of Deposited events handed to Filler.onDeposited
  nextNonce,         \* NonceManager.nextNonce
  nonceManagerReady, \* NonceManager.initialize has returned and the server listens
  quoteRequests,     \* the POST /quote requests of the solver server, in order of arrival
  issuedNonces,      \* history: what getNextNonce returned, in order of the calls
  chainLogs,         \* the chain: the Deposited events of block 1, 2, ...
  startBlock,        \* history: the head of the chain Monitor.start read
  lastBlock,         \* Monitor.lastBlock
  pollTimer,         \* Monitor.pollTimer is set: start has returned
  polls,             \* the calls of Monitor.poll in flight
  handed,            \* history: the events handed to the Deposited handler
  solverRows,        \* the rows of the solvers table, shared by the registries
  registrations,     \* the calls of SolverRegistry.register in flight
  lastQuote,         \* the last call of Aggregator.getQuote: its inputs and what it returned
  solverCalls,       \* the calls of Aggregator.fetchSolverQuote of the cycle in flight
  clock              \* the API host's clock, in milliseconds

engineVars == <<orders, solvers, nonceBitmap, excessBalances, balanceOf, proxyDeployed, now,
                fundedAtFillDeadline, openEvents>>
guardVars == <<reentrancyStatus, callStack>>
fillerVars == <<pendingFills, fillQueue, fillJobs, depositedSeen>>
quoteServerVars == <<nextNonce, nonceManagerReady, quoteRequests, issuedNonces>>
monitorVars == <<chainLogs, startBlock, lastBlock, pollTimer, polls, handed>>
fanOutVars == <<solverCalls, clock>>
apiVars == <<solverRows, registrations, lastQuote, fanOutVars>>
offChainVars == <<fillerVars, quoteServerVars, monitorVars, apiVars>>
vars == <<orders, solvers, nonceBitmap, excessBalances, balanceOf, proxyDeployed, now,
          fundedAtFillDeadline, openEvents, reentrancyStatus, callStack,
          pendingFills, fillQueue, fillJobs, depositedSeen,
          nextNonce, nonceManagerReady, quoteRequests, issuedNonces,
          chainLogs, startBlock, lastBlock, pollTimer, polls, handed,
          solverRows, registrations, lastQuote, solverCalls, clock>>

NoOrder ==
  [user |-> ZERO_ADDRESS, solver |-> ZERO_ADDRESS, inputToken |-> ZERO_ADDRESS,
   inputAmount |-> 0, outputToken |-> ZERO_ADDRESS, outputAmount |-> 0,
   outputChainId |-> 0, fillDeadline |-> 0, state |-> "NONE"]

NoSolver ==
  [totalBond |-> 0, reservedBond |-> 0, unstakeAmount |-> 0, unstakeTimestamp |-> 0,
   registered |-> FALSE]

\* Monitor.poll is called by a timer, whether or not the previous call has
\* returned: the calls in flight, at most MaxPolls of them in the model.
PollSlots == 1..MaxPolls
NoPoll == [pc |-> "idle", fromBlock |-> 0, toBlock |-> 0, logs |-> <<>>]

\* The calls of SolverRegistry.register in flight.
RegisterSlots == 1..MaxRegistrations
NoRegistration == [pc |-> "idle", address |-> ZERO_ADDRESS, chainId |-> 0,
                   endpointUrl |-> "", name |-> ""]

\* Before the first call of Aggregator.getQuote.
NoQuote == [outcome |-> "idle"]

\* The calls of fetchSolverQuote one cycle dispatches.
CallSlots == 1..MaxCalls
NoCall == [pc |-> "idle", dispatched |-> 0, timer |-> -1, ended |-> 0]

\* The user holds the input of the default quote and of the fee-token quote,
\* the solver two minimum bonds and the output of two minimum orders.
InitialBalance(token, holder) ==
  IF holder = "user" /\ token = "BRLA" THEN Quotes[1].inputAmount
  ELSE IF holder = "user" /\ token = "FOT" THEN Quotes[2].inputAmount
  ELSE IF holder = "solver" /\ token = "USDC" THEN 2 * MIN_BOND + 2 * MIN_ORDER
  ELSE 0

Init ==
  /\ orders = [id \in QuoteIds |-> NoOrder]
  /\ solvers = [a \in Accounts |-> NoSolver]
  /\ nonceBitmap = [a \in Accounts |-> {}]
  /\ excessBalances = [a \in Accounts |-> [t \in Tokens |-> 0]]
  /\ balanceOf = [t \in Tokens |-> [h \in Holders |-> InitialBalance(t, h)]]
  /\ proxyDeployed = [id \in QuoteIds |-> FALSE]
  /\ now = 100
  /\ fundedAtFillDeadline = {}
  /\ openEvents = {}
  /\ reentrancyStatus = "NOT_ENTERED"
  /\ callStack = <<>>
  /\ pendingFills = {}
  /\ fillQueue = 0
  /\ fillJobs = <<>>
  /\ depositedSeen = 0
  /\ nextNonce = 0
  /\ nonceManagerReady = FALSE
  /\ quoteRequests = <<>>
  /\ issuedNonces = <<>>
  /\ chainLogs = <<>>
  /\ startBlock = 0
  /\ lastBlock = 0
  /\ pollTimer = FALSE
  /\ polls = [p \in PollSlots |-> NoPoll]
  /\ handed = {}
  /\ solverRows = {}
  /\ registrations = [r \in RegisterSlots |-> NoRegistration]
  /\ lastQuote = NoQuote
  /\ solverCalls = [i \in CallSlots |-> NoCall]
  /\ clock = 0

\* _emitERC7683Open: the Open event of the order joins the log.
_emitERC7683Open(events, orderId) == events \cup {orderId}

\* ------------------------------------------------------------------------
\*  ERC-20 tokens
\* ------------------------------------------------------------------------
\* What the recipient of a transfer of amount gets.
TransferFee(token, amount) ==
  IF token = "FOT" THEN (amount * FOT_FEE_BPS) \div 10000 ELSE 0

\* The ledgers after transfer / transferFrom of amount from src to dst.
\* Callers check src's balance first (the token reverts otherwise).
Transfer(bal, token, src, dst, amount) ==
  IF src = dst THEN
    [bal EXCEPT ![token][src] = @ - TransferFee(token, amount)]
  ELSE
    [bal EXCEPT ![token][src] = @ - amount,
                ![token][dst] = @ + (amount - TransferFee(token, amount))]

\* DepositProxy.sweep(token, to): the proxy's whole balance of token goes to to.
Sweep(bal, token, proxy, dst) ==
  IF bal[token][proxy] > 0 THEN Transfer(bal, token, proxy, dst, bal[token][proxy])
  ELSE bal

\* ------------------------------------------------------------------------
\*  Nonce bitmap
\* ------------------------------------------------------------------------
wordPos(nonce) == nonce \div 256
bitPos(nonce) == nonce % 256

isNonceUsed(solver, nonce) == <<wordPos(nonce), bitPos(nonce)>> \in nonceBitmap[solver]

\* Variant of _useNonce that does not set the bit.
_useNonceForgets(bitmap, solver, nonce) == bitmap

\* _useNonce after its NonceAlreadyUsed check: the bitmap with the bit set.
_useNonce(bitmap, solver, nonce) ==
  [bitmap EXCEPT ![solver] = @ \cup {<<wordPos(nonce), bitPos(nonce)>>}]

\* ------------------------------------------------------------------------
\*  Bond ledger
\* ------------------------------------------------------------------------
Reservation(outputAmount) == (outputAmount * BOND_RESERVATION_BPS) \div 10000

\* _checkBond / the check of _reserveBond.  totalBond - reservedBond is
\* checked arithmetic: it panics when reservedBond > totalBond.
_checkBond(solver, outputAmount) ==
  IF solvers[solver].reservedBond > solvers[solver].totalBond THEN "Panic"
  ELSE IF solvers[solver].totalBond - solvers[solver].reservedBond < Reservation(outputAmount)
    THEN "InsufficientBond"
  ELSE "OK"

_reserveBond(info, outputAmount) ==
  [info EXCEPT !.reservedBond = @ + Reservation(outputAmount)]

_releaseBond(info, outputAmount) ==
  [info EXCEPT !.reservedBond = @ - Reservation(outputAmount)]

Slashed(info, outputAmount) ==
  IF Reservation(outputAmount) > info.totalBond THEN info.totalBond
  ELSE Reservation(outputAmount)

_slashBond(info, outputAmount) ==
  [info EXCEPT !.totalBond = @ - Slashed(info, outputAmount),
               !.reservedBond = IF @ >= Reservation(outputAmount)
                                THEN @ - Reservation(outputAmount) ELSE 0]

\* ------------------------------------------------------------------------
\*  Solver management
\* ------------------------------------------------------------------------
BondAmounts == {MIN_BOND}

registerSolverErr(sender, bondAmount) ==
  IF solvers[sender].registered THEN "SolverAlreadyRegistered"
  ELSE IF bondAmount < MIN_BOND THEN "BelowMinimumBond"
  ELSE IF balanceOf[BOND_TOKEN][sender] < bondAmount THEN "TransferFailed"
  ELSE "OK"

registerSolver(sender, bondAmount) ==
  /\ registerSolverErr(sender, bondAmount) = "OK"
  /\ solvers' = [solvers EXCEPT ![sender] =
                   [totalBond |-> bondAmount, reservedBond |-> 0, unstakeAmount |-> 0,
                    unstakeTimestamp |-> 0, registered |-> TRUE]]
  /\ balanceOf' = Transfer(balanceOf, BOND_TOKEN, sender, FIRM_SWAP, bondAmount)
  /\ UNCHANGED <<orders, nonceBitmap, excessBalances, proxyDeployed, now, fundedAtFillDeadline, guardVars, offChainVars, openEvents>>

addBondErr(sender, amount) ==
  IF ~solvers[sender].registered THEN "SolverNotRegistered"
  ELSE IF balanceOf[BOND_TOKEN][sender] < amount THEN "TransferFailed"
  ELSE "OK"

addBond(sender, amount) ==
  /\ addBondErr(sender, amount) = "OK"
  /\ solvers' = [solvers EXCEPT ![sender].totalBond = @ + amount]
  /\ balanceOf' = Transfer(balanceOf, BOND_TOKEN, sender, FIRM_SWAP, amount)
  /\ UNCHANGED <<orders, nonceBitmap, excessBalances, proxyDeployed, now, fundedAtFillDeadline, guardVars, offChainVars, openEvents>>

requestUnstakeErr(sender, amount) ==
  IF ~solvers[sender].registered THEN "SolverNotRegistered"
  ELSE IF solvers[sender].unstakeAmount > 0 THEN "PendingUnstakeExists"
  ELSE IF solvers[sender].reservedBond > solvers[sender].totalBond THEN "Panic"
  ELSE IF solvers[sender].totalBond - solvers[sender].reservedBond < amount
    THEN "InsufficientBond"
  ELSE IF amount > solvers[sender].totalBond THEN "Panic"
  ELSE IF solvers[sender].totalBond - amount < MIN_BOND THEN "BelowMinimumBond"
  ELSE "OK"

requestUnstake(sender, amount) ==
  /\ requestUnstakeErr(sender, amount) = "OK"
  /\ solvers' = [solvers EXCEPT ![sender].unstakeAmount = amount,
                                ![sender].unstakeTimestamp = now + UNSTAKE_DELAY]
  /\ UNCHANGED <<orders, nonceBitmap, excessBalances, balanceOf, proxyDeployed, now, fundedAtFillDeadline, guardVars, offChainVars, openEvents>>

cancelUnstakeErr(sender) ==
  IF solvers[sender].unstakeAmount = 0 THEN "NoPendingUnstake" ELSE "OK"

cancelUnstake(sender) ==
  /\ cancelUnstakeErr(sender) = "OK"
  /\ solvers' = [solvers EXCEPT ![sender].unstakeAmount = 0,
                                ![sender].unstakeTimestamp = 0]
  /\ UNCHANGED <<orders, nonceBitmap, excessBalances, balanceOf, proxyDeployed, now, fundedAtFillDeadline, guardVars, offChainVars, openEvents>>

\* Variant of executeUnstakeErr without the timelock check.
executeUnstakeErrNoDelay(sender) ==
  IF solvers[sender].unstakeAmount = 0 THEN "NoPendingUnstake"
  ELSE IF solvers[sender].unstakeAmount > solvers[sender].totalBond THEN "Panic"
  ELSE IF balanceOf[BOND_TOKEN][FIRM_SWAP] < solvers[sender].unstakeAmount
    THEN "TransferFailed"
  ELSE "OK"

executeUnstakeErr(sender) ==
  IF solvers[sender].unstakeAmount = 0 THEN "NoPendingUnstake"
  ELSE IF now < solvers[sender].unstakeTimestamp THEN "UnstakeNotReady"
  ELSE IF solvers[sender].unstakeAmount > solvers[sender].totalBond THEN "Panic"
  ELSE IF balanceOf[BOND_TOKEN][FIRM_SWAP] < solvers[sender].unstakeAmount
    THEN "TransferFailed"
  ELSE "OK"

executeUnstake(sender) ==
  /\ executeUnstakeErr(sender) = "OK"
  /\ solvers' = [solvers EXCEPT ![sender].totalBond = @ - solvers[sender].unstakeAmount,
                                ![sender].unstakeAmount = 0,
                                ![sender].unstakeTimestamp = 0]
  /\ balanceOf' = Transfer(balanceOf, BOND_TOKEN, FIRM_SWAP, sender,
                           solvers[sender].unstakeAmount)
  /\ UNCHANGED <<orders, nonceBitmap, excessBalances, proxyDeployed, now, fundedAtFillDeadline, guardVars, offChainVars, openEvents>>

cancelNonceErr(sender, nonce) ==
  IF isNonceUsed(sender, nonce) THEN "NonceAlreadyUsed" ELSE "OK"

cancelNonce(sender, nonce) ==
  /\ cancelNonceErr(sender, nonce) = "OK"
  /\ nonceBitmap' = _useNonce(nonceBitmap, sender, nonce)
  /\ UNCHANGED <<orders, solvers, excessBalances, balanceOf, proxyDeployed, now, fundedAtFillDeadline, guardVars, offChainVars, openEvents>>

\* cancelNonces(wordPos, mask): mask is the set of the bit positions it sets.
cancelNonces(sender, word, mask) ==
  /\ nonceBitmap' = [nonceBitmap EXCEPT ![sender] = @ \cup {<<word, b>> : b \in mask}]
  /\ nonceBitmap' # nonceBitmap
  /\ UNCHANGED <<orders, solvers, excessBalances, balanceOf, proxyDeployed, now, fundedAtFillDeadline, guardVars, offChainVars, openEvents>>

\* ------------------------------------------------------------------------
\*  Quote validation
\* ------------------------------------------------------------------------
\* Variant of _validateQuoteCore without the nonce check.
_validateQuoteCoreNoNonce(q) ==
  IF q.user = ZERO_ADDRESS THEN "InvalidQuote"
  ELSE IF q.inputAmount = 0 \/ q.outputAmount = 0 THEN "InvalidQuote"
  ELSE IF q.outputAmount < MIN_ORDER THEN "BelowMinimumOrder"
  ELSE IF q.fillDeadline <= q.depositDeadline THEN "FillDeadlineBeforeDeposit"
  ELSE IF q.outputChainId # CHAIN_ID THEN "WrongChain"
  ELSE IF ~solvers[q.solver].registered THEN "SolverNotRegistered"
  ELSE IF q.signer # q.solver THEN "InvalidSignature"
  ELSE "OK"

_validateQuoteCore(q) ==
  IF q.user = ZERO_ADDRESS THEN "InvalidQuote"
  ELSE IF q.inputAmount = 0 \/ q.outputAmount = 0 THEN "InvalidQuote"
  ELSE IF q.outputAmount < MIN_ORDER THEN "BelowMinimumOrder"
  ELSE IF q.fillDeadline <= q.depositDeadline THEN "FillDeadlineBeforeDeposit"
  ELSE IF q.outputChainId # CHAIN_ID THEN "WrongChain"
  ELSE IF ~solvers[q.solver].registered THEN "SolverNotRegistered"
  ELSE IF isNonceUsed(q.solver, q.nonce) THEN "NonceAlreadyUsed"
  ELSE IF q.signer # q.solver THEN "InvalidSignature"
  ELSE "OK"

_validateQuote(q) ==
  LET core == _validateQuoteCore(q)
  IN IF core # "OK" THEN core
     ELSE IF now > q.depositDeadline THEN "QuoteExpired"
     ELSE "OK"

_validateQuoteForRefund(q) == _validateQuoteCore(q)

\* openFor's validation: no zero-user check, the deposit deadline is checked
\* before the nonce.
_validateQuoteMemory(q) ==
  IF q.inputAmount = 0 \/ q.outputAmount = 0 THEN "InvalidQuote"
  ELSE IF q.outputAmount < MIN_ORDER THEN "BelowMinimumOrder"
  ELSE IF q.fillDeadline <= q.depositDeadline THEN "FillDeadlineBeforeDeposit"
  ELSE IF q.outputChainId # CHAIN_ID THEN "WrongChain"
  ELSE IF ~solvers[q.solver].registered THEN "SolverNotRegistered"
  ELSE IF now > q.depositDeadline THEN "QuoteExpired"
  ELSE IF isNonceUsed(q.solver, q.nonce) THEN "NonceAlreadyUsed"
  ELSE IF q.signer # q.solver THEN "InvalidSignature"
  ELSE "OK"

\* The order record written from a quote.
OrderOf(q, state) ==
  [user |-> q.user, solver |-> q.solver, inputToken |-> q.inputToken,
   inputAmount |-> q.inputAmount, outputToken |-> q.outputToken,
   outputAmount |-> q.outputAmount, outputChainId |-> q.outputChainId,
   fillDeadline |-> q.fillDeadline, state |-> state]

\* _validateAndCreateOrder up to its writes.
_validateAndCreateOrder(id) ==
  LET valid == _validateQuote(Quotes[id])
  IN IF valid # "OK" THEN valid
     ELSE IF orders[computeOrderId(id)].state # "NONE" THEN "OrderAlreadyExists"
     ELSE _checkBond(Quotes[id].solver, Quotes[id].outputAmount)

\* ------------------------------------------------------------------------
\*  Contract deposit
\* ------------------------------------------------------------------------
\* What the engine received between two readings of its own balance.
actualReceived(balBefore, balAfter, token) ==
  balAfter[token][FIRM_SWAP] - balBefore[token][FIRM_SWAP]

depositErr(sender, id) ==
  LET created == _validateAndCreateOrder(id)
  IN IF created # "OK" THEN created
     ELSE IF balanceOf[Quotes[id].inputToken][sender] < Quotes[id].inputAmount
       THEN "TransferFailed"
     ELSE "OK"

\* The amount _depositInternal stores in the order after the pull.
_depositInternalStored(q, balAfter) == actualReceived(balanceOf, balAfter, q.inputToken)

deposit(sender, id) ==
  LET q == Quotes[id]
      orderId == computeOrderId(id)
      balAfter == Transfer(balanceOf, q.inputToken, sender, FIRM_SWAP, q.inputAmount)
  IN /\ depositErr(sender, id) = "OK"
     /\ nonceBitmap' = _useNonce(nonceBitmap, q.solver, q.nonce)
     /\ solvers' = [solvers EXCEPT ![q.solver] = _reserveBond(@, q.outputAmount)]
     /\ orders' = [orders EXCEPT ![orderId] =
                     [OrderOf(q, "DEPOSITED") EXCEPT
                        !.inputAmount = _depositInternalStored(q, balAfter)]]
     /\ balanceOf' = balAfter
     /\ openEvents' = _emitERC7683Open(openEvents, orderId)
     /\ UNCHANGED <<excessBalances, proxyDeployed, now, fundedAtFillDeadline, guardVars, offChainVars>>

\* permitToken is permit.permitted.token: Permit2 moves requestedAmount of
\* that token from the caller to the engine.
depositWithPermit2Err(sender, id, permitToken) ==
  LET created == _validateAndCreateOrder(id)
  IN IF created # "OK" THEN created
     ELSE IF balanceOf[permitToken][sender] < Quotes[id].inputAmount THEN "TransferFailed"
     ELSE "OK"

\* The amount depositWithPermit2 leaves in the order.
depositWithPermit2Stored(q, balAfter) == q.inputAmount

depositWithPermit2(sender, id, permitToken) ==
  LET q == Quotes[id]
      orderId == computeOrderId(id)
      balAfter == Transfer(balanceOf, permitToken, sender, FIRM_SWAP, q.inputAmount)
  IN /\ depositWithPermit2Err(sender, id, permitToken) = "OK"
     /\ nonceBitmap' = _useNonce(nonceBitmap, q.solver, q.nonce)
     /\ solvers' = [solvers EXCEPT ![q.solver] = _reserveBond(@, q.outputAmount)]
     /\ orders' = [orders EXCEPT ![orderId] =
                     [OrderOf(q, "DEPOSITED") EXCEPT
                        !.inputAmount = depositWithPermit2Stored(q, balAfter)]]
     /\ balanceOf' = balAfter
     /\ openEvents' = _emitERC7683Open(openEvents, orderId)
     /\ UNCHANGED <<excessBalances, proxyDeployed, now, fundedAtFillDeadline, guardVars, offChainVars>>

\* openFor decodes the quote and runs _depositInternalMemory.
openForErr(sender, id) ==
  LET valid == _validateQuoteMemory(Quotes[id])
      bond == _checkBond(Quotes[id].solver, Quotes[id].outputAmount)
  IN IF valid # "OK" THEN valid
     ELSE IF orders[computeOrderId(id)].state # "NONE" THEN "OrderAlreadyExists"
     ELSE IF bond # "OK" THEN bond
     ELSE IF balanceOf[Quotes[id].inputToken][sender] < Quotes[id].inputAmount
       THEN "TransferFailed"
     ELSE "OK"

openFor(sender, id) ==
  LET q == Quotes[id]
      orderId == computeOrderId(id)
      balAfter == Transfer(balanceOf, q.inputToken, sender, FIRM_SWAP, q.inputAmount)
  IN /\ openForErr(sender, id) = "OK"
     /\ nonceBitmap' = _useNonce(nonceBitmap, q.solver, q.nonce)
     /\ solvers' = [solvers EXCEPT ![q.solver] = _reserveBond(@, q.outputAmount)]
     /\ orders' = [orders EXCEPT ![orderId] =
                     [OrderOf(q, "DEPOSITED") EXCEPT
                        !.inputAmount = actualReceived(balanceOf, balAfter, q.inputToken)]]
     /\ balanceOf' = balAfter
     /\ UNCHANGED <<excessBalances, proxyDeployed, now, fundedAtFillDeadline, guardVars, offChainVars, openEvents>>

\* Variant of fillErr without the fill-deadline check.
fillErrAnyTime(sender, orderId) ==
  LET order == orders[orderId]
      balMid == Transfer(balanceOf, order.outputToken, sender, order.user, order.outputAmount)
  IN IF order.state # "DEPOSITED" THEN "OrderNotDeposited"
     ELSE IF order.solver # sender THEN "NotSolver"
     ELSE IF solvers[order.solver].reservedBond < Reservation(order.outputAmount) THEN "Panic"
     ELSE IF balanceOf[order.outputToken][sender] < order.outputAmount THEN "TransferFailed"
     ELSE IF balMid[order.inputToken][FIRM_SWAP] < order.inputAmount THEN "TransferFailed"
     ELSE "OK"

fillErr(sender, orderId) ==
  LET order == orders[orderId]
      balMid == Transfer(balanceOf, order.outputToken, sender, order.user, order.outputAmount)
  IN IF order.state # "DEPOSITED" THEN "OrderNotDeposited"
     ELSE IF order.solver # sender THEN "NotSolver"
     ELSE IF now > order.fillDeadline THEN "QuoteExpired"
     ELSE IF solvers[order.solver].reservedBond < Reservation(order.outputAmount) THEN "Panic"
     ELSE IF balanceOf[order.outputToken][sender] < order.outputAmount THEN "TransferFailed"
     ELSE IF balMid[order.inputToken][FIRM_SWAP] < order.inputAmount THEN "TransferFailed"
     ELSE "OK"

fill(sender, orderId) ==
  LET order == orders[orderId]
      balMid == Transfer(balanceOf, order.outputToken, sender, order.user, order.outputAmount)
  IN /\ fillErr(sender, orderId) = "OK"
     /\ orders' = [orders EXCEPT ![orderId].state = "SETTLED"]
     /\ solvers' = [solvers EXCEPT ![order.solver] = _releaseBond(@, order.outputAmount)]
     /\ balanceOf' = Transfer(balMid, order.inputToken, FIRM_SWAP, order.solver,
                              order.inputAmount)
     /\ UNCHANGED <<nonceBitmap, excessBalances, proxyDeployed, now, fundedAtFillDeadline, guardVars, offChainVars, openEvents>>

\* ------------------------------------------------------------------------
\*  Refund of a contract deposit
\* ------------------------------------------------------------------------
\* Variant of refundErr that refuses only an order that does not exist.
refundErrAnyOrder(sender, orderId) ==
  LET order == orders[orderId]
      bondSlash == Slashed(solvers[order.solver], order.outputAmount)
      balMid == Transfer(balanceOf, order.inputToken, FIRM_SWAP, order.user, order.inputAmount)
  IN IF order.state = "NONE" THEN "OrderNotDeposited"
     ELSE IF now <= order.fillDeadline THEN "OrderNotExpired"
     ELSE IF balanceOf[order.inputToken][FIRM_SWAP] < order.inputAmount THEN "TransferFailed"
     ELSE IF bondSlash > 0 /\ balMid[BOND_TOKEN][FIRM_SWAP] < bondSlash THEN "TransferFailed"
     ELSE "OK"

refundErr(sender, orderId) ==
  LET order == orders[orderId]
      bondSlash == Slashed(solvers[order.solver], order.outputAmount)
      balMid == Transfer(balanceOf, order.inputToken, FIRM_SWAP, order.user, order.inputAmount)
  IN IF order.state # "DEPOSITED" THEN "OrderNotDeposited"
     ELSE IF now <= order.fillDeadline THEN "OrderNotExpired"
     ELSE IF balanceOf[order.inputToken][FIRM_SWAP] < order.inputAmount THEN "TransferFailed"
     ELSE IF bondSlash > 0 /\ balMid[BOND_TOKEN][FIRM_SWAP] < bondSlash THEN "TransferFailed"
     ELSE "OK"

refund(sender, orderId) ==
  LET order == orders[orderId]
      bondSlash == Slashed(solvers[order.solver], order.outputAmount)
      balMid == Transfer(balanceOf, order.inputToken, FIRM_SWAP, order.user, order.inputAmount)
  IN /\ refundErr(sender, orderId) = "OK"
     /\ solvers' = [solvers EXCEPT ![order.solver] = _slashBond(@, order.outputAmount)]
     /\ orders' = [orders EXCEPT ![orderId].state = "REFUNDED"]
     /\ balanceOf' = IF bondSlash > 0
                     THEN Transfer(balMid, BOND_TOKEN, FIRM_SWAP, order.user, bondSlash)
                     ELSE balMid
     /\ UNCHANGED <<nonceBitmap, excessBalances, proxyDeployed, now, fundedAtFillDeadline, guardVars, offChainVars, openEvents>>

\* ------------------------------------------------------------------------
\*  Address deposit (CREATE2)
\* ------------------------------------------------------------------------
\* Steps 1-5 and the CREATE2 of settle; accepted is the amount the deposit
\* address must hold (quote.inputAmount for settle).
settleChecks(id, accepted) ==
  LET q == Quotes[id]
      orderId == computeOrderId(id)
      depositAddr == computeDepositAddress(orderId)
      valid == _validateQuote(q)
      bond == _checkBond(q.solver, q.outputAmount)
  IN IF valid # "OK" THEN valid
     ELSE IF orders[orderId].state # "NONE" THEN "OrderAlreadyExists"
     ELSE IF balanceOf[q.inputToken][depositAddr] < accepted THEN "InsufficientDeposit"
     ELSE IF bond # "OK" THEN bond
     ELSE IF proxyDeployed[orderId] THEN "Create2Failed"
     ELSE "OK"

\* Variant of toSolver that pays the solver all the sweep delivered.
toSolverAll(received, accepted) == received

\* Step 9: what goes to the solver out of what the sweep delivered.
toSolver(received, accepted) == IF received > accepted THEN accepted ELSE received

\* Variant of settleEffects that reserves the bond it checked.
settleEffectsReserving(sender, id, accepted) ==
  LET q == Quotes[id]
      orderId == computeOrderId(id)
      balSwept == Sweep(balanceOf, q.inputToken, computeDepositAddress(orderId), FIRM_SWAP)
      received == actualReceived(balanceOf, balSwept, q.inputToken)
      balPaid == Transfer(balSwept, q.outputToken, sender, q.user, q.outputAmount)
      excess == received - toSolver(received, accepted)
  IN /\ balSwept[q.outputToken][sender] >= q.outputAmount
     /\ balPaid[q.inputToken][FIRM_SWAP] >= toSolver(received, accepted)
     /\ nonceBitmap' = _useNonce(nonceBitmap, q.solver, q.nonce)
     /\ solvers' = [solvers EXCEPT ![q.solver] = _reserveBond(@, q.outputAmount)]
     /\ orders' = [orders EXCEPT ![orderId] = OrderOf(q, "SETTLED")]
     /\ proxyDeployed' = [proxyDeployed EXCEPT ![orderId] = TRUE]
     /\ excessBalances' = [excessBalances EXCEPT ![q.user][q.inputToken] = @ + excess]
     /\ balanceOf' = Transfer(balPaid, q.inputToken, FIRM_SWAP, q.solver,
                              toSolver(received, accepted))
     /\ openEvents' = _emitERC7683Open(openEvents, orderId)
     /\ UNCHANGED <<now, fundedAtFillDeadline, guardVars, offChainVars>>

\* Steps 6-9 of settle and settleWithTolerance.
settleEffects(sender, id, accepted) ==
  LET q == Quotes[id]
      orderId == computeOrderId(id)
      balSwept == Sweep(balanceOf, q.inputToken, computeDepositAddress(orderId), FIRM_SWAP)
      received == actualReceived(balanceOf, balSwept, q.inputToken)
      balPaid == Transfer(balSwept, q.outputToken, sender, q.user, q.outputAmount)
      excess == received - toSolver(received, accepted)
  IN /\ balSwept[q.outputToken][sender] >= q.outputAmount
     /\ balPaid[q.inputToken][FIRM_SWAP] >= toSolver(received, accepted)
     /\ nonceBitmap' = _useNonce(nonceBitmap, q.solver, q.nonce)
     /\ orders' = [orders EXCEPT ![orderId] = OrderOf(q, "SETTLED")]
     /\ proxyDeployed' = [proxyDeployed EXCEPT ![orderId] = TRUE]
     /\ excessBalances' = [excessBalances EXCEPT ![q.user][q.inputToken] = @ + excess]
     /\ balanceOf' = Transfer(balPaid, q.inputToken, FIRM_SWAP, q.solver,
                              toSolver(received, accepted))
     /\ openEvents' = _emitERC7683Open(openEvents, orderId)
     /\ UNCHANGED <<solvers, now, fundedAtFillDeadline, guardVars, offChainVars>>

settleErr(id) == settleChecks(id, Quotes[id].inputAmount)

settle(sender, id) ==
  /\ settleErr(id) = "OK"
  /\ settleEffects(sender, id, Quotes[id].inputAmount)

settleWithToleranceErr(id, acceptedInputAmount) ==
  IF acceptedInputAmount > Quotes[id].inputAmount THEN "InvalidQuote"
  ELSE IF acceptedInputAmount = 0 THEN "InvalidQuote"
  ELSE settleChecks(id, acceptedInputAmount)

settleWithTolerance(sender, id, acceptedInputAmount) ==
  /\ settleWithToleranceErr(id, acceptedInputAmount) = "OK"
  /\ settleEffects(sender, id, acceptedInputAmount)

\* ------------------------------------------------------------------------
\*  Refund of an address deposit, recovery
\* ------------------------------------------------------------------------
refundAddressDepositErr(id) ==
  LET q == Quotes[id]
      orderId == computeOrderId(id)
      valid == _validateQuoteForRefund(q)
  IN IF valid # "OK" THEN valid
     ELSE IF orders[orderId].state # "NONE" THEN "OrderAlreadyExists"
     ELSE IF now <= q.fillDeadline THEN "OrderNotExpired"
     ELSE IF balanceOf[q.inputToken][computeDepositAddress(orderId)] = 0
       THEN "InsufficientDeposit"
     ELSE IF proxyDeployed[orderId] THEN "Create2Failed"
     ELSE "OK"

\* Variant of fullDeposit that slashes whatever the deposit address holds.
fullDepositAlways(depositBalance, q) == TRUE

\* Whether refundAddressDeposit slashes: the deposit covers the quoted input.
fullDeposit(depositBalance, q) == depositBalance >= q.inputAmount

refundAddressDeposit(sender, id) ==
  LET q == Quotes[id]
      orderId == computeOrderId(id)
      depositAddr == computeDepositAddress(orderId)
      slashes == fullDeposit(balanceOf[q.inputToken][depositAddr], q)
      bondSlash == IF slashes THEN Slashed(solvers[q.solver], q.outputAmount) ELSE 0
      balSwept == Sweep(balanceOf, q.inputToken, depositAddr, FIRM_SWAP)
      received == actualReceived(balanceOf, balSwept, q.inputToken)
      balBack == Transfer(balSwept, q.inputToken, FIRM_SWAP, q.user, received)
  IN /\ refundAddressDepositErr(id) = "OK"
     /\ bondSlash > 0 => balBack[BOND_TOKEN][FIRM_SWAP] >= bondSlash
     /\ nonceBitmap' = _useNonce(nonceBitmap, q.solver, q.nonce)
     /\ solvers' = IF slashes
                   THEN [solvers EXCEPT ![q.solver] = _slashBond(@, q.outputAmount)]
                   ELSE solvers
     /\ orders' = [orders EXCEPT ![orderId] = OrderOf(q, "REFUNDED")]
     /\ proxyDeployed' = [proxyDeployed EXCEPT ![orderId] = TRUE]
     /\ balanceOf' = IF bondSlash > 0
                     THEN Transfer(balBack, BOND_TOKEN, FIRM_SWAP, q.user, bondSlash)
                     ELSE balBack
     /\ UNCHANGED <<excessBalances, now, fundedAtFillDeadline, guardVars, offChainVars, openEvents>>

recoverFromProxyErr(id, token) ==
  LET orderId == computeOrderId(id)
  IN IF orders[orderId].state # "SETTLED" /\ orders[orderId].state # "REFUNDED"
       THEN "OrderNotFound"
     ELSE IF ~proxyDeployed[orderId] THEN "NoCodeAtProxy"
     ELSE "OK"

recoverFromProxy(sender, id, token) ==
  LET orderId == computeOrderId(id)
  IN /\ recoverFromProxyErr(id, token) = "OK"
     /\ balanceOf' = Sweep(balanceOf, token, computeDepositAddress(orderId), Quotes[id].user)
     /\ balanceOf' # balanceOf
     /\ UNCHANGED <<orders, solvers, nonceBitmap, excessBalances, proxyDeployed, now, fundedAtFillDeadline, guardVars, offChainVars, openEvents>>

deployAndRecoverErr(id, token) ==
  LET q == Quotes[id]
      orderId == computeOrderId(id)
      valid == _validateQuoteForRefund(q)
  IN IF token = q.inputToken THEN "InvalidQuote"
     ELSE IF valid # "OK" THEN valid
     ELSE IF orders[orderId].state # "NONE" THEN "OrderAlreadyExists"
     ELSE IF now <= q.fillDeadline THEN "OrderNotExpired"
     ELSE IF proxyDeployed[orderId] THEN "Create2Failed"
     ELSE "OK"

deployAndRecover(sender, id, token) ==
  LET q == Quotes[id]
      orderId == computeOrderId(id)
      balSwept == Sweep(balanceOf, token, computeDepositAddress(orderId), FIRM_SWAP)
      received == actualReceived(balanceOf, balSwept, token)
  IN /\ deployAndRecoverErr(id, token) = "OK"
     /\ nonceBitmap' = _useNonce(nonceBitmap, q.solver, q.nonce)
     /\ orders' = [orders EXCEPT ![orderId] = OrderOf(q, "REFUNDED")]
     /\ proxyDeployed' = [proxyDeployed EXCEPT ![orderId] = TRUE]
     /\ balanceOf' = IF received > 0
                     THEN Transfer(balSwept, token, FIRM_SWAP, q.user, received)
                     ELSE balSwept
     /\ UNCHANGED <<solvers, excessBalances, now, fundedAtFillDeadline, guardVars, offChainVars, openEvents>>

withdrawExcessErr(sender, token) ==
  IF excessBalances[sender][token] = 0 THEN "NoExcessBalance"
  ELSE IF balanceOf[token][FIRM_SWAP] < excessBalances[sender][token] THEN "TransferFailed"
  ELSE "OK"

withdrawExcess(sender, token) ==
  /\ withdrawExcessErr(sender, token) = "OK"
  /\ excessBalances' = [excessBalances EXCEPT ![sender][token] = 0]
  /\ balanceOf' = Transfer(balanceOf, token, FIRM_SWAP, sender, excessBalances[sender][token])
  /\ UNCHANGED <<orders, solvers, nonceBitmap, proxyDeployed, now, fundedAtFillDeadline, guardVars, offChainVars, openEvents>>

\* ------------------------------------------------------------------------
\*  Environment: token transfers to a deposit address, passing of time
\* ------------------------------------------------------------------------
\* An account sends tokens to the deposit address of a quote.
transferToDepositAddress(sender, id, token, amount) ==
  /\ amount > 0
  /\ balanceOf[token][sender] >= amount
  /\ balanceOf' = Transfer(balanceOf, token, sender,
                           computeDepositAddress(computeOrderId(id)), amount)
  /\ UNCHANGED <<orders, solvers, nonceBitmap, excessBalances, proxyDeployed, now, fundedAtFillDeadline, guardVars, offChainVars, openEvents>>

\* The instants at which some comparison of the engine changes its outcome.
TimeInstants ==
  UNION {{Quotes[id].depositDeadline, Quotes[id].depositDeadline + 1,
          Quotes[id].fillDeadline, Quotes[id].fillDeadline + 1} : id \in QuoteIds}
  \cup {solvers[a].unstakeTimestamp : a \in Accounts}

\* block.timestamp moves forward between transactions.
Tick ==
  \E t \in TimeInstants :
  /\ t > now
  /\ t <= MaxTime
  /\ now' = t
  /\ fundedAtFillDeadline' =
       fundedAtFillDeadline \cup
         {id \in QuoteIds :
            /\ now <= Quotes[id].fillDeadline /\ t > Quotes[id].fillDeadline
            /\ balanceOf[Quotes[id].inputToken][computeDepositAddress(computeOrderId(id))]
                 >= Quotes[id].inputAmount}
  /\ UNCHANGED <<orders, solvers, nonceBitmap, excessBalances, balanceOf, proxyDeployed, guardVars, offChainVars, openEvents>>

\* ------------------------------------------------------------------------
\*  The engine, one transaction per step
\* ------------------------------------------------------------------------
CancelNonces == {0}
CancelMasks == {{1, 2}}
AcceptedAmounts(id) == {1, Quotes[id].inputAmount}
\* The transfers to deposit addresses: <<quote id, token, amount>>.
\* Quote 1 can be funded in full or with dust, quote 2 with the fee token,
\* quote 4 in full or (by a second transfer) in excess, and quote 3 with a
\* token that is not its input token.
AddressDeposits ==
  {<<1, "BRLA", 2>>, <<1, "BRLA", 1>>, <<2, "FOT", 2>>, <<4, "BRLA", 1>>, <<3, "FOT", 1>>}
\* The accounts that deposit.
Depositors == {"user"}
InputTokens == {"BRLA", "FOT"}

Next ==
     \/ \E s \in SolverAccounts, b \in BondAmounts : registerSolver(s, b)
     \/ \E s \in SolverAccounts, b \in BondAmounts : addBond(s, b)
     \/ \E s \in SolverAccounts, b \in BondAmounts : requestUnstake(s, b)
     \/ \E s \in SolverAccounts : cancelUnstake(s)
     \/ \E s \in SolverAccounts : executeUnstake(s)
     \/ \E s \in SolverAccounts, n \in CancelNonces : cancelNonce(s, n)
     \/ \E s \in SolverAccounts, m \in CancelMasks : cancelNonces(s, 0, m)
     \/ \E a \in Depositors, id \in QuoteIds : deposit(a, id)
     \/ \E a \in Depositors, id \in QuoteIds, t \in InputTokens : depositWithPermit2(a, id, t)
     \/ \E a \in Depositors, id \in QuoteIds : openFor(a, id)
     \/ \E a \in Accounts, id \in QuoteIds : fill(a, id)
     \/ \E a \in Accounts, id \in QuoteIds : settle(a, id)
     \/ \E a \in Accounts, id \in QuoteIds : \E amt \in AcceptedAmounts(id) :
          settleWithTolerance(a, id, amt)
     \/ \E a \in Accounts, id \in QuoteIds : refund(a, id)
     \/ \E a \in Accounts, id \in QuoteIds : refundAddressDeposit(a, id)
     \/ \E a \in Accounts, id \in QuoteIds, t \in InputTokens : recoverFromProxy(a, id, t)
     \/ \E a \in Accounts, id \in QuoteIds, t \in InputTokens : deployAndRecover(a, id, t)
     \/ \E a \in Accounts, t \in InputTokens : withdrawExcess(a, t)
     \/ \E a \in Depositors, d \in AddressDeposits :
          transferToDepositAddress(a, d[1], d[2], d[3])
     \/ Tick

Spec == Init /\ [][Next]_vars

\* ------------------------------------------------------------------------
\*  Reentrancy: the call chain of one transaction
\* ------------------------------------------------------------------------
EntryPoints ==
  {"deposit", "depositWithPermit2", "openFor", "fill", "settle", "settleWithTolerance",
   "refund", "refundAddressDeposit", "recoverFromProxy", "deployAndRecover",
   "withdrawExcess", "registerSolver", "addBond", "requestUnstake", "cancelUnstake",
   "executeUnstake", "cancelNonce", "cancelNonces"}

\* The entry points that carry the nonReentrant modifier.
nonReentrant ==
  {"deposit", "depositWithPermit2", "openFor", "fill", "settle", "settleWithTolerance",
   "refund", "refundAddressDeposit", "recoverFromProxy", "deployAndRecover",
   "withdrawExcess"}

\* The entry points that call out (to a token, to Permit2, to a proxy); the
\* callee may call the engine back before it returns.
makesExternalCall ==
  {"deposit", "depositWithPermit2", "openFor", "fill", "settle", "settleWithTolerance",
   "refund", "refundAddressDeposit", "recoverFromProxy", "deployAndRecover",
   "withdrawExcess", "registerSolver", "addBond", "executeUnstake"}

\* Entry point f is called: by a transaction when nothing is in flight, or by
\* the callee of the external call the innermost entry point is making.
\* nonReentrantBefore reverts when the guard is taken.
enter(f) ==
  /\ Len(callStack) < MaxCallDepth
  /\ callStack # <<>> => callStack[Len(callStack)] \in makesExternalCall
  /\ f \in nonReentrant => reentrancyStatus = "NOT_ENTERED"
  /\ callStack' = Append(callStack, f)
  /\ reentrancyStatus' = IF f \in nonReentrant THEN "ENTERED" ELSE reentrancyStatus
  /\ UNCHANGED <<engineVars, offChainVars>>

\* The innermost entry point returns; nonReentrantAfter frees the guard.
return ==
  /\ callStack # <<>>
  /\ callStack' = SubSeq(callStack, 1, Len(callStack) - 1)
  /\ reentrancyStatus' = IF callStack[Len(callStack)] \in nonReentrant
                         THEN "NOT_ENTERED" ELSE reentrancyStatus
  /\ UNCHANGED <<engineVars, offChainVars>>

NextReentrancy ==
  \/ \E f \in EntryPoints : enter(f)
  \/ return

SpecReentrancy == Init /\ [][NextReentrancy]_vars

\* ------------------------------------------------------------------------
\*  The solver's filler (solver/src/filler.ts)
\* ------------------------------------------------------------------------
\* The Deposited events the monitor may hand over: for this solver or for
\* another, with a fill deadline before or after the filler's clock.
OrderEvents ==
  [orderId : {1, 3}, solver : {"solver", "anyone"}, fillDeadline : {99, 101}]

\* The filler's own address.
solverAddress == "solver"

\* The steps of Filler.fill at which a job waits for the chain, the node or
\* a receipt.
FillSteps ==
  {"balanceOf", "allowance", "approve", "approveReceipt", "fillTx", "fillReceipt"}

\* The jobs whose fill is in progress: started and not yet returned.
inProgress == {i \in DOMAIN fillJobs : fillJobs[i].pc \in FillSteps}

\* Variant of chainedOn that chains the fill on nothing.
chainedOnResolved(queue) == 0

\* this.fillQueue.then(...): the promise the new fill is chained on.
chainedOn(queue) == queue

\* Variant of settledAs without the two catches: a step that throws leaves
\* the queue's promise rejected.
settledAsThrown(threw) == IF threw THEN "rejected" ELSE "done"

\* What the queue's promise of a job becomes when its fill is over: fill
\* catches whatever its steps throw and returns, and the queue adds
\* .catch(() => {}), so the promise is fulfilled whether or not a step threw.
settledAs(threw) == "done"

\* Filler.onDeposited: events of other solvers and expired ones are dropped;
\* the others are recorded and their fill is chained on the queue.
handleDeposited(event) ==
  /\ depositedSeen' = depositedSeen + 1
  /\ IF event.solver # solverAddress \/ now > event.fillDeadline
     THEN UNCHANGED <<pendingFills, fillQueue, fillJobs>>
     ELSE /\ pendingFills' = pendingFills \cup {event.orderId}
          /\ fillJobs' = Append(fillJobs, [orderId |-> event.orderId,
                                           after |-> chainedOn(fillQueue),
                                           pc |-> "queued"])
          /\ fillQueue' = Len(fillJobs) + 1

\* A Deposited event is handed to Filler.onDeposited.
onDeposited(event) ==
  /\ depositedSeen < MaxDeposited
  /\ handleDeposited(event)
  /\ UNCHANGED <<engineVars, guardVars, quoteServerVars, monitorVars, apiVars>>

\* The promise a job is chained on has settled: the job's fill starts.
startFill(i) ==
  /\ fillJobs[i].pc = "queued"
  /\ IF fillJobs[i].after = 0 THEN TRUE ELSE fillJobs[fillJobs[i].after].pc = "done"
  /\ fillJobs' = [fillJobs EXCEPT ![i].pc = "balanceOf"]
  /\ UNCHANGED <<engineVars, guardVars, quoteServerVars, monitorVars, apiVars, pendingFills, fillQueue, depositedSeen>>

\* The balance read returns: too little output token ends the job.
balanceRead(i, sufficient) ==
  /\ fillJobs[i].pc = "balanceOf"
  /\ fillJobs' = [fillJobs EXCEPT ![i].pc = IF sufficient THEN "allowance"
                                            ELSE settledAs(FALSE)]
  /\ UNCHANGED <<engineVars, guardVars, quoteServerVars, monitorVars, apiVars, pendingFills, fillQueue, depositedSeen>>

\* The allowance read returns: too little allowance asks for an approval.
allowanceRead(i, sufficient) ==
  /\ fillJobs[i].pc = "allowance"
  /\ fillJobs' = [fillJobs EXCEPT ![i].pc = IF sufficient THEN "fillTx" ELSE "approve"]
  /\ UNCHANGED <<engineVars, guardVars, quoteServerVars, monitorVars, apiVars, pendingFills, fillQueue, depositedSeen>>

\* The approval, then the fill, is sent and its receipt awaited.
transactionStep(i) ==
  /\ fillJobs[i].pc \in {"approve", "approveReceipt", "fillTx"}
  /\ fillJobs' = [fillJobs EXCEPT ![i].pc =
                    IF fillJobs[i].pc = "approve" THEN "approveReceipt"
                    ELSE IF fillJobs[i].pc = "approveReceipt" THEN "fillTx"
                    ELSE "fillReceipt"]
  /\ UNCHANGED <<engineVars, guardVars, quoteServerVars, monitorVars, apiVars, pendingFills, fillQueue, depositedSeen>>

\* The receipt of the fill arrives: the order leaves pendingFills.
fillConfirmed(i) ==
  /\ fillJobs[i].pc = "fillReceipt"
  /\ fillJobs' = [fillJobs EXCEPT ![i].pc = settledAs(FALSE)]
  /\ pendingFills' = pendingFills \ {fillJobs[i].orderId}
  /\ UNCHANGED <<engineVars, guardVars, quoteServerVars, monitorVars, apiVars, fillQueue, depositedSeen>>

\* A read or a transaction throws: the catch logs it and the job returns.
fillFailed(i) ==
  /\ fillJobs[i].pc \in FillSteps
  /\ fillJobs' = [fillJobs EXCEPT ![i].pc = settledAs(TRUE)]
  /\ UNCHANGED <<engineVars, guardVars, quoteServerVars, monitorVars, apiVars, pendingFills, fillQueue, depositedSeen>>

NextFiller ==
  \/ \E event \in OrderEvents : onDeposited(event)
  \/ \E i \in DOMAIN fillJobs : startFill(i)
  \/ \E i \in DOMAIN fillJobs, sufficient \in BOOLEAN : balanceRead(i, sufficient)
  \/ \E i \in DOMAIN fillJobs, sufficient \in BOOLEAN : allowanceRead(i, sufficient)
  \/ \E i \in DOMAIN fillJobs : transactionStep(i)
  \/ \E i \in DOMAIN fillJobs : fillConfirmed(i)
  \/ \E i \in DOMAIN fillJobs : fillFailed(i)

SpecFiller == Init /\ [][NextFiller]_vars

\* A step of job i's fill: an RPC call of the job returns or throws.
fillStep(i) ==
  /\ i \in DOMAIN fillJobs
  /\ \/ \E sufficient \in BOOLEAN : balanceRead(i, sufficient)
     \/ \E sufficient \in BOOLEAN : allowanceRead(i, sufficient)
     \/ transactionStep(i)
     \/ fillConfirmed(i)
     \/ fillFailed(i)

\* The filler with its scheduling: the event loop runs a then-callback once
\* the promise it is chained on is fulfilled, and every RPC call a fill
\* awaits returns or throws.
SpecFillerLive ==
  /\ Init
  /\ [][NextFiller]_vars
  /\ \A i \in 1..MaxDeposited :
       /\ WF_vars(i \in DOMAIN fillJobs /\ startFill(i))
       /\ WF_vars(fillStep(i))

\* ------------------------------------------------------------------------
\*  The solver's quote server (solver/src/nonceManager.ts, server.ts)
\* ------------------------------------------------------------------------
\* NonceManager.isNonceUsed: the on-chain bit, or false when the read throws.
isNonceUsedRead(nonce, failing) ==
  IF nonce \in failing THEN FALSE ELSE isNonceUsed(solverAddress, nonce)

\* What NonceManager.initialize leaves in nextNonce: the first nonce of the
\* window that reads unused, the end of the window when there is none.
firstUnusedNonce(failing) ==
  IF \A i \in 0..(NONCE_SCAN_WINDOW - 1) : isNonceUsedRead(i, failing)
  THEN NONCE_SCAN_WINDOW
  ELSE CHOOSE i \in 0..(NONCE_SCAN_WINDOW - 1) :
         /\ ~isNonceUsedRead(i, failing)
         /\ \A j \in 0..(i - 1) : isNonceUsedRead(j, failing)

\* main: the nonce manager is initialized, then the server listens.  The
\* reads of the nonces in failing throw.
initialize(failing) ==
  /\ ~nonceManagerReady
  /\ nextNonce' = firstUnusedNonce(failing)
  /\ nonceManagerReady' = TRUE
  /\ UNCHANGED <<engineVars, guardVars, fillerVars, monitorVars, apiVars,
                 quoteRequests, issuedNonces>>

\* Variant of getNextNonceAdvance that leaves the counter where it is.
getNextNonceStale(counter) == counter

\* NonceManager.getNextNonce returns the counter; the counter after it.
getNextNonceAdvance(counter) == counter + 1

\* A POST /quote arrives: a request with a missing field is answered 400,
\* the others ask the quoter for a price.
quoteRequest(complete) ==
  /\ nonceManagerReady
  /\ Len(quoteRequests) < MaxQuoteRequests
  /\ quoteRequests' = Append(quoteRequests,
                             [pc |-> IF complete THEN "quoter" ELSE "400", nonce |-> -1])
  /\ UNCHANGED <<engineVars, guardVars, fillerVars, monitorVars, apiVars,
                 nextNonce, nonceManagerReady, issuedNonces>>

\* quoter.quote returns: without a price the answer is 503, when it throws
\* 500; with a price the handler takes the next nonce and asks the signer.
quoterReturns(i, result) ==
  /\ quoteRequests[i].pc = "quoter"
  /\ IF result = "price"
     THEN /\ quoteRequests' = [quoteRequests EXCEPT ![i] = [pc |-> "signQuote", nonce |-> nextNonce]]
          /\ issuedNonces' = Append(issuedNonces, nextNonce)
          /\ nextNonce' = getNextNonceAdvance(nextNonce)
     ELSE /\ quoteRequests' = [quoteRequests EXCEPT ![i].pc = IF result = "null" THEN "503" ELSE "500"]
          /\ UNCHANGED <<nextNonce, issuedNonces>>
  /\ UNCHANGED <<engineVars, guardVars, fillerVars, monitorVars, apiVars, nonceManagerReady>>

\* signer.signQuote returns: the signed quote is the response; when it
\* throws the answer is 500.
signQuoteReturns(i, signed) ==
  /\ quoteRequests[i].pc = "signQuote"
  /\ quoteRequests' = [quoteRequests EXCEPT ![i].pc = IF signed THEN "200" ELSE "500"]
  /\ UNCHANGED <<engineVars, guardVars, fillerVars, monitorVars, apiVars,
                 nextNonce, nonceManagerReady, issuedNonces>>

\* The solver server; nonces may have been cancelled on chain before it
\* starts.
NextQuoteServer ==
  \/ \E n \in 0..(MaxChainNonce - 1) : ~nonceManagerReady /\ cancelNonce(solverAddress, n)
  \/ \E failing \in SUBSET (0..(MaxChainNonce - 1)) : initialize(failing)
  \/ \E complete \in BOOLEAN : quoteRequest(complete)
  \/ \E i \in DOMAIN quoteRequests, result \in {"price", "null", "throws"} : quoterReturns(i, result)
  \/ \E i \in DOMAIN quoteRequests, signed \in BOOLEAN : signQuoteReturns(i, signed)

SpecQuoteServer == Init /\ [][NextQuoteServer]_vars

\* ------------------------------------------------------------------------
\*  The solver's deposit watcher (solver/src/monitor.ts)
\* ------------------------------------------------------------------------
\* What a block can hold: no Deposited event, or one; the event of block b
\* has order id b, names this solver or another and has a fill deadline
\* before or after the filler's clock.
BlockLogs(b) ==
  {<<>>} \cup {<<e>> : e \in [orderId : {b}, solver : {"solver", "anyone"},
                               fillDeadline : {99, 101}]}

\* A block is mined.
mineBlock(logs) ==
  /\ Len(chainLogs) < MaxBlock
  /\ chainLogs' = Append(chainLogs, logs)
  /\ UNCHANGED <<engineVars, guardVars, fillerVars, quoteServerVars, apiVars,
                 startBlock, lastBlock, pollTimer, polls, handed>>

\* client.getBlockNumber: the head of the chain.
getBlockNumber == Len(chainLogs)

RECURSIVE getLogs(_, _)
\* client.getLogs: the Deposited events of the blocks fromBlock..toBlock, in
\* the order of the chain.
getLogs(fromBlock, toBlock) ==
  IF fromBlock > toBlock THEN <<>>
  ELSE chainLogs[fromBlock] \o getLogs(fromBlock + 1, toBlock)

\* Monitor.start: polling starts from the current block.
start ==
  /\ ~pollTimer
  /\ lastBlock' = getBlockNumber
  /\ startBlock' = getBlockNumber
  /\ pollTimer' = TRUE
  /\ UNCHANGED <<engineVars, guardVars, fillerVars, quoteServerVars, apiVars,
                 chainLogs, polls, handed>>

\* The interval timer fires and calls poll, which asks for the block number.
pollTimerFires(p) ==
  /\ pollTimer
  /\ polls[p].pc = "idle"
  /\ polls' = [polls EXCEPT ![p].pc = "getBlockNumber"]
  /\ UNCHANGED <<engineVars, guardVars, fillerVars, quoteServerVars, apiVars,
                 chainLogs, startBlock, lastBlock, pollTimer, handed>>

\* Variant of fromBlockOf that starts one block later.
fromBlockSkipping(last) == last + 2

\* The first block poll fetches.
fromBlockOf(last) == last + 1

\* The block number arrives: poll returns when there is no new block, and
\* asks for the logs of lastBlock + 1 .. currentBlock otherwise.
getBlockNumberReturns(p) ==
  /\ polls[p].pc = "getBlockNumber"
  /\ polls' = [polls EXCEPT ![p] =
                 IF getBlockNumber <= lastBlock THEN NoPoll
                 ELSE [pc |-> "getLogs", fromBlock |-> fromBlockOf(lastBlock),
                       toBlock |-> getBlockNumber, logs |-> <<>>]]
  /\ UNCHANGED <<engineVars, guardVars, fillerVars, quoteServerVars, apiVars,
                 chainLogs, startBlock, lastBlock, pollTimer, handed>>

\* The logs arrive: poll goes through them; with none it records toBlock and
\* returns.
getLogsReturns(p) ==
  LET depositedLogs == getLogs(polls[p].fromBlock, polls[p].toBlock)
  IN /\ polls[p].pc = "getLogs"
     /\ IF depositedLogs = <<>>
        THEN /\ lastBlock' = polls[p].toBlock
             /\ polls' = [polls EXCEPT ![p] = NoPoll]
        ELSE /\ polls' = [polls EXCEPT ![p].pc = "onDeposited", ![p].logs = depositedLogs]
             /\ UNCHANGED lastBlock
     /\ UNCHANGED <<engineVars, guardVars, fillerVars, quoteServerVars, apiVars,
                    chainLogs, startBlock, pollTimer, handed>>

\* poll hands the next event of its logs to the handler, Filler.onDeposited,
\* and awaits it.
handEvent(p) ==
  /\ polls[p].pc = "onDeposited"
  /\ polls[p].logs # <<>>
  /\ handleDeposited(Head(polls[p].logs))
  /\ handed' = handed \cup {Head(polls[p].logs)}
  /\ polls' = [polls EXCEPT ![p].logs = Tail(@)]
  /\ UNCHANGED <<engineVars, guardVars, quoteServerVars, apiVars,
                 chainLogs, startBlock, lastBlock, pollTimer>>

\* The last handler has returned: poll records toBlock and returns.
pollReturns(p) ==
  /\ polls[p].pc = "onDeposited"
  /\ polls[p].logs = <<>>
  /\ lastBlock' = polls[p].toBlock
  /\ polls' = [polls EXCEPT ![p] = NoPoll]
  /\ UNCHANGED <<engineVars, guardVars, fillerVars, quoteServerVars, apiVars,
                 chainLogs, startBlock, pollTimer, handed>>

\* A read of the node throws: the error is logged and poll is over.
pollThrows(p) ==
  /\ polls[p].pc \in {"getBlockNumber", "getLogs"}
  /\ polls' = [polls EXCEPT ![p] = NoPoll]
  /\ UNCHANGED <<engineVars, guardVars, fillerVars, quoteServerVars, apiVars,
                 chainLogs, startBlock, lastBlock, pollTimer, handed>>

NextMonitor ==
  \/ \E logs \in BlockLogs(Len(chainLogs) + 1) : mineBlock(logs)
  \/ start
  \/ \E p \in PollSlots : pollTimerFires(p)
  \/ \E p \in PollSlots : getBlockNumberReturns(p)
  \/ \E p \in PollSlots : getLogsReturns(p)
  \/ \E p \in PollSlots : handEvent(p)
  \/ \E p \in PollSlots : pollReturns(p)
  \/ \E p \in PollSlots : pollThrows(p)

SpecMonitor == Init /\ [][NextMonitor]_vars

\* Polling continues: the timer keeps firing, the reads of the node succeed
\* again and again, and a poll that holds logs goes on.
MonitorFairness ==
  \A p \in PollSlots :
    /\ WF_vars(pollTimerFires(p))
    /\ SF_vars(getBlockNumberReturns(p))
    /\ SF_vars(getLogsReturns(p))
    /\ WF_vars(handEvent(p))
    /\ WF_vars(pollReturns(p))

SpecMonitorLive == SpecMonitor /\ MonitorFairness

\* ------------------------------------------------------------------------
\*  The API's solver registry (api/src/solverRegistry.ts, api/src/db.ts)
\* ------------------------------------------------------------------------
\* One registry per chain, all on one database.  The registry of CHAIN_ID
\* has a firmSwapAddress and verifies bonds; the other has none.
Chains == {CHAIN_ID, 10200}
\* The addresses callers pass: "0xA" is "0xa" in another case.
ApiAddresses == {"0xa", "0xA", "0xb", "0xc"}
toLowerCase(address) == IF address = "0xA" THEN "0xa" ELSE address
\* SolverRegistry.maxSolvers, as configured.
maxSolvers == 2

\* Variant of stmtDelete that selects the rows by address alone.
stmtDeleteAnyChain(rows, address, chainId) ==
  {row \in rows : row.address # address}

\* DELETE FROM solvers WHERE address = ? AND chain_id = ?
stmtDelete(rows, address, chainId) ==
  {row \in rows : ~(row.address = address /\ row.chain_id = chainId)}

\* SELECT * FROM solvers WHERE address = ? AND chain_id = ?
stmtGet(address, chainId) ==
  {row \in solverRows : row.address = address /\ row.chain_id = chainId}

\* SELECT * FROM solvers WHERE active = 1 AND chain_id = ?
stmtGetActive(chainId) ==
  {row \in solverRows : row.active /\ row.chain_id = chainId}

\* INSERT INTO solvers (address, chain_id, endpoint_url, name, registered_at,
\* active) VALUES (?, ?, ?, ?, ?, 1) ON CONFLICT(address, chain_id) DO UPDATE
\* SET endpoint_url = excluded.endpoint_url, name = excluded.name, active = 1
stmtUpsert(rows, address, chainId, endpointUrl, name, registeredAt) ==
  IF \E row \in rows : row.address = address /\ row.chain_id = chainId
  THEN {IF row.address = address /\ row.chain_id = chainId
        THEN [row EXCEPT !.endpoint_url = endpointUrl, !.name = name, !.active = TRUE]
        ELSE row : row \in rows}
  ELSE rows \cup {[address |-> address, chain_id |-> chainId, endpoint_url |-> endpointUrl,
                   name |-> name, registered_at |-> registeredAt, active |-> TRUE]}

\* UPDATE solvers SET active = ? WHERE address = ? AND chain_id = ?
stmtSetActive(rows, active, address, chainId) ==
  {IF row.address = address /\ row.chain_id = chainId
   THEN [row EXCEPT !.active = active] ELSE row : row \in rows}

\* SolverRegistry.getSolver and getActiveSolvers of the registry of chainId.
getSolver(address, chainId) == stmtGet(toLowerCase(address), chainId)
getActiveSolvers(chainId) == stmtGetActive(chainId)

\* The cap check of register: an address with no row on the chain is
\* refused when the chain's active rows have reached maxSolvers.
registerCapErr(address, chainId) ==
  IF stmtGet(toLowerCase(address), chainId) = {}
     /\ Cardinality(stmtGetActive(chainId)) >= maxSolvers
  THEN "Maximum solver limit reached" ELSE "OK"

\* What readContract(solvers, address) can give verifyBond: it throws, or
\* it returns the solver's record.
BondReads ==
  {[threw |-> TRUE, info |-> NoSolver]}
    \cup {[threw |-> FALSE, info |-> info] :
            info \in {NoSolver, [NoSolver EXCEPT !.registered = TRUE, !.totalBond = MIN_BOND - 1],
                      [NoSolver EXCEPT !.registered = TRUE, !.totalBond = MIN_BOND]}}

\* SolverRegistry.verifyBond with minSolverBond = 1000e6.
verifyBond(result) ==
  IF result.threw THEN FALSE
  ELSE result.info.registered /\ result.info.totalBond >= MIN_BOND

\* register is called on the registry of chainId: after the cap check it
\* writes the row at once when the chain has no firmSwapAddress, and awaits
\* verifyBond otherwise.
register(r, address, chainId, endpointUrl, name, dateNow) ==
  /\ registrations[r].pc = "idle"
  /\ registerCapErr(address, chainId) = "OK"
  /\ IF chainId = CHAIN_ID
     THEN /\ registrations' = [registrations EXCEPT ![r] =
                 [pc |-> "verifyBond", address |-> address, chainId |-> chainId,
                  endpointUrl |-> endpointUrl, name |-> name]]
          /\ UNCHANGED solverRows
     ELSE /\ solverRows' = stmtUpsert(solverRows, toLowerCase(address), chainId,
                                      endpointUrl, name, dateNow)
          /\ UNCHANGED registrations
  /\ UNCHANGED <<engineVars, guardVars, fillerVars, quoteServerVars, monitorVars, lastQuote, fanOutVars>>

\* verifyBond returns: with a sufficient bond register writes the row, with
\* none it answers with an error.
verifyBondReturns(r, result, dateNow) ==
  /\ registrations[r].pc = "verifyBond"
  /\ registrations' = [registrations EXCEPT ![r] = NoRegistration]
  /\ solverRows' = IF verifyBond(result)
                   THEN stmtUpsert(solverRows, toLowerCase(registrations[r].address),
                                   registrations[r].chainId, registrations[r].endpointUrl,
                                   registrations[r].name, dateNow)
                   ELSE solverRows
  /\ UNCHANGED <<engineVars, guardVars, fillerVars, quoteServerVars, monitorVars, lastQuote, fanOutVars>>

\* SolverRegistry.unregister of a registered address.
unregister(address, chainId) ==
  /\ solverRows' = stmtDelete(solverRows, toLowerCase(address), chainId)
  /\ solverRows' # solverRows
  /\ UNCHANGED <<engineVars, guardVars, fillerVars, quoteServerVars, monitorVars,
                 registrations, lastQuote, fanOutVars>>

\* SolverRegistry.setSolverActive.
setSolverActive(address, active, chainId) ==
  /\ solverRows' = stmtSetActive(solverRows, active, toLowerCase(address), chainId)
  /\ solverRows' # solverRows
  /\ UNCHANGED <<engineVars, guardVars, fillerVars, quoteServerVars, monitorVars,
                 registrations, lastQuote, fanOutVars>>

\* The registries of the two chains, every solver registering with one
\* endpoint and name.
NextRegistry ==
  \/ \E r \in RegisterSlots, a \in ApiAddresses, c \in Chains :
        register(r, a, c, "http://old", "OldName", 1000)
  \/ \E r \in RegisterSlots, result \in BondReads : verifyBondReturns(r, result, 1000)
  \/ \E a \in ApiAddresses, c \in Chains : unregister(a, c)
  \/ \E a \in ApiAddresses, active \in BOOLEAN, c \in Chains : setSolverActive(a, active, c)

SpecRegistry == Init /\ [][NextRegistry]_vars

\* One solver that registers again and again, under its address in either
\* case, with an old or a new endpoint and name, at an earlier or a later
\* time, and is switched off and on by the operator.
NextReRegister ==
  \/ \E r \in RegisterSlots, a \in {"0xa", "0xA"}, c \in Chains,
        endpointUrl \in {"http://old", "http://new"}, name \in {"OldName", "NewName"},
        dateNow \in {1000, 2000} :
        register(r, a, c, endpointUrl, name, dateNow)
  \/ \E r \in RegisterSlots, result \in BondReads, dateNow \in {1000, 2000} :
        verifyBondReturns(r, result, dateNow)
  \/ \E active \in BOOLEAN, c \in Chains : setSolverActive("0xa", active, c)
  \/ \E c \in Chains : unregister("0xa", c)

SpecReRegister == Init /\ [][NextReRegister]_vars

\* ------------------------------------------------------------------------
\* The API's quote aggregator (Aggregator.getQuote and its route)
\* ------------------------------------------------------------------------
\* config.maxQuoteFanOut.
maxQuoteFanOut == 10

\* The requests the route lets through: the user's address is sent in mixed
\* case, the tokens in lower case; amount is the input of an EXACT_INPUT
\* request and the output of an EXACT_OUTPUT one.
QuoteRequests ==
  [orderType : {"EXACT_INPUT", "EXACT_OUTPUT"}, depositMode : {"CONTRACT", "ADDRESS"},
   amount : {"5"}, userAddress : {"0xA"}, inputToken : {"0xb"}, outputToken : {"0xc"}]

\* BigInt(string): a decimal or a hexadecimal literal gives its value, any
\* other string throws SyntaxError.
BigIntThrows(s) == s \notin {"0", "5", "0x5", "7"}
BigInt(s) ==
  CASE s = "0" -> 0
    [] s = "5" -> 5
    [] s = "0x5" -> 5
    [] s = "7" -> 7

\* The signature that recovers to the solver named in a quote.
SignatureOf(solver) ==
  CASE solver = "0xa" -> "0x5a"
    [] solver = "0xb" -> "0x5b"
    [] solver = "0xc" -> "0x5c"

\* verifySignature(quote, signature, firmSwapAddress, chainId): whether the
\* signature recovers to quote.solver over the domain of the chain's engine.
verifySignature(quote, signature) == signature = SignatureOf(quote.solver)

\* A quote of solver for the request above, good until depositDeadline.
SerializedQuoteOf(solver, user, inputAmount, outputAmount, depositDeadline) ==
  [solver |-> solver, user |-> user, inputToken |-> "0xb", outputToken |-> "0xc",
   inputAmount |-> inputAmount, outputAmount |-> outputAmount,
   depositDeadline |-> depositDeadline]

\* How the call to one solver can settle at time t: rejected (DNS check,
\* timeout, refused connection, status other than 2xx, a body that is not
\* JSON), or fulfilled with the JSON body: one without a quote, or a quote
\* with its signature.
SolverAnswers(solver, t) ==
  {[status |-> "rejected", hasQuote |-> FALSE,
    quote |-> SerializedQuoteOf(solver, "0xa", "0", "0", 0), signature |-> ""],
   [status |-> "fulfilled", hasQuote |-> FALSE,
    quote |-> SerializedQuoteOf(solver, "0xa", "0", "0", 0), signature |-> ""]}
  \cup
  {[status |-> "fulfilled", hasQuote |-> TRUE, quote |-> q, signature |-> s] :
     q \in {SerializedQuoteOf(solver, "0xa", "0x5", "5", t + 300),
            SerializedQuoteOf(solver, "0xa", "7", "7", t + 300)},
     s \in {SignatureOf(solver)}}
  \cup
  {[status |-> "fulfilled", hasQuote |-> TRUE, quote |-> q, signature |-> SignatureOf(solver)] :
     q \in {SerializedQuoteOf(solver, "0xb", "5", "7", t + 300),
            SerializedQuoteOf(solver, "0xa", "5", "7", t),
            SerializedQuoteOf(solver, "0xa", "5", "abc", t + 300)}}
  \cup
  {[status |-> "fulfilled", hasQuote |-> TRUE,
    quote |-> SerializedQuoteOf(solver, "0xa", "5", "7", t + 300), signature |-> "0xbad"]}

\* The rows of a SELECT in the order the database returns them.
RECURSIVE rowsInOrder(_)
rowsInOrder(rows) ==
  IF rows = {} THEN <<>>
  ELSE LET row == CHOOSE r \in rows : TRUE
       IN <<row>> \o rowsInOrder(rows \ {row})

\* The solvers getQuote asks: the active ones, at most maxQuoteFanOut.
fanOut(chainId) ==
  LET asked == rowsInOrder(getActiveSolvers(chainId))
  IN IF Len(asked) > maxQuoteFanOut THEN SubSeq(asked, 1, maxQuoteFanOut) ELSE asked

\* The validation loop reads q.user of a body without a quote (TypeError)
\* and parses the amounts with BigInt (SyntaxError); neither is caught.
validationThrows(result) ==
  /\ result.status = "fulfilled"
  /\ IF ~result.hasQuote THEN TRUE
     ELSE IF BigIntThrows(result.quote.outputAmount) THEN TRUE
     ELSE BigInt(result.quote.outputAmount) > 0 /\ BigIntThrows(result.quote.inputAmount)

\* The validation of one fulfilled response against the request.
matchesRequest(result, request, t) ==
  LET q == result.quote
      userMatch == toLowerCase(q.user) = toLowerCase(request.userAddress)
      inputMatch == toLowerCase(q.inputToken) = toLowerCase(request.inputToken)
      outputMatch == toLowerCase(q.outputToken) = toLowerCase(request.outputToken)
      deadlineValid == q.depositDeadline > t
      amountValid == BigInt(q.outputAmount) > 0 /\ BigInt(q.inputAmount) > 0
  IN userMatch /\ inputMatch /\ outputMatch /\ deadlineValid /\ amountValid

\* quotes: the fulfilled responses that match the request, in the order of
\* the solvers.
collectQuotes(responses, request, t) ==
  SelectSeq(responses, LAMBDA result :
    result.status = "fulfilled" /\ matchesRequest(result, request, t))

\* chainCtx.firmSwapAddress is set for the chain of the engine only.
firmSwapConfigured(chainId) == chainId = CHAIN_ID

\* Variant of verifiedQuotes that keeps every quote.
unverifiedQuotes(quotes) == quotes

\* verified: the quotes whose signature check is fulfilled with true.
verifiedQuotes(quotes) ==
  SelectSeq(quotes, LAMBDA q : verifySignature(q.quote, q.signature))

\* Variant of the comparator that ranks by outputAmount for both order types.
compareByOutput(a, b, orderType) ==
  IF BigInt(b.quote.outputAmount) > BigInt(a.quote.outputAmount) THEN 1 ELSE -1

\* The comparator of rankQuotes.
compareQuotes(a, b, orderType) ==
  IF orderType = "EXACT_INPUT"
  THEN IF BigInt(b.quote.outputAmount) > BigInt(a.quote.outputAmount) THEN 1 ELSE -1
  ELSE IF BigInt(a.quote.inputAmount) > BigInt(b.quote.inputAmount) THEN 1 ELSE -1

\* [...quotes].sort(comparator): the arrangements of the quotes in which the
\* comparator puts every element before the ones that follow it.  Quotes
\* with equal amounts compare as "before" in both directions, so the order
\* among them is the sort's.
rankQuotes(quotes, orderType) ==
  {ranked \in {[i \in 1..Len(quotes) |-> quotes[p[i]]] : p \in Permutations(1..Len(quotes))} :
     \A i \in 1..Len(quotes), j \in 1..Len(quotes) :
        i < j => compareQuotes(ranked[i], ranked[j], orderType) < 0}

\* What readContract(computeDepositAddress) can give: an address, or it throws.
DepositAddressReads == {"0xde", "throws"}

\* Aggregator.computeDepositAddress.
computeDepositAddressOf(read) == IF read = "throws" THEN "undefined" ELSE read

\* Variant of the alternative entry that keeps the quote's signature.
alternativeWithSignature(alt) ==
  [quote |-> alt.quote, solverSignature |-> alt.signature, depositAddress |-> "undefined"]

\* An entry of alternativeQuotes.
alternativeQuote(alt) ==
  [quote |-> alt.quote, solverSignature |-> "", depositAddress |-> "undefined"]

\* POST /v1/:chainId/quote calls getQuote on the aggregator of the chain; the
\* solvers' calls settle as responses and the deposit-address read as read.
getQuote(chainId, request, read) ==
  /\ lastQuote.outcome = "idle"
  /\ LET asked == fanOut(chainId)
     IN \E responses \in {rs \in [1..Len(asked) -> UNION {SolverAnswers(asked[i].address, now) :
                                                              i \in 1..Len(asked)}] :
                            \A i \in 1..Len(asked) :
                               rs[i] \in SolverAnswers(asked[i].address, now)} :
          LET quotes == collectQuotes(responses, request, now)
              verified == verifiedQuotes(quotes)
              ended(outcome) == [outcome |-> outcome, chainId |-> chainId,
                                 request |-> request, now |-> now,
                                 responses |-> responses]
          IN IF Len(asked) = 0 THEN lastQuote' = ended("none")
             ELSE IF \E i \in 1..Len(responses) : validationThrows(responses[i])
             THEN lastQuote' = ended("threw")
             ELSE IF Len(quotes) = 0 THEN lastQuote' = ended("none")
             ELSE IF ~firmSwapConfigured(chainId) THEN lastQuote' = ended("none")
             ELSE IF Len(verified) = 0 THEN lastQuote' = ended("none")
             ELSE \E ranked \in rankQuotes(verified, request.orderType) :
                    lastQuote' =
                      [outcome |-> "ok", chainId |-> chainId, request |-> request,
                       now |-> now,
                       responses |-> responses,
                       quote |-> ranked[1].quote,
                       solverSignature |-> ranked[1].signature,
                       depositAddress |-> IF request.depositMode = "ADDRESS"
                                          THEN computeDepositAddressOf(read)
                                          ELSE "undefined",
                       alternativeQuotes |->
                         [i \in 1..(Len(ranked) - 1) |-> alternativeQuote(ranked[i + 1])]]
  /\ UNCHANGED <<engineVars, guardVars, fillerVars, quoteServerVars, monitorVars,
                 solverRows, registrations, fanOutVars>>

\* The route answers the caller: the result, 503 for none, 500 for an
\* exception; nothing of the cycle is kept.
reply ==
  /\ lastQuote.outcome # "idle"
  /\ lastQuote' = NoQuote
  /\ UNCHANGED <<engineVars, guardVars, fillerVars, quoteServerVars, monitorVars,
                 solverRows, registrations, fanOutVars>>

\* The solvers that register on the chain whose quotes are aggregated.
NextAggregator ==
  \/ \E r \in RegisterSlots, a \in {"0xa", "0xb", "0xc"} :
        register(r, a, CHAIN_ID, "http://old", "OldName", 1000)
  \/ \E r \in RegisterSlots, result \in BondReads : verifyBondReturns(r, result, 1000)
  \/ \E request \in QuoteRequests, read \in DepositAddressReads :
        getQuote(CHAIN_ID, request, read)
  \/ reply

SpecAggregator == Init /\ [][NextAggregator]_vars

\* Two solvers that register on either chain, and the quote cycles of both
\* chains: the one with a firmSwapAddress and the one without.
NextVerification ==
  \/ \E a \in {"0xa", "0xb"}, c \in Chains : register(1, a, c, "http://old", "OldName", 1000)
  \/ \E result \in BondReads : verifyBondReturns(1, result, 1000)
  \/ \E c \in Chains, request \in QuoteRequests, read \in DepositAddressReads :
        getQuote(c, request, read)
  \/ reply

SpecVerification == Init /\ [][NextVerification]_vars

\* ------------------------------------------------------------------------
\* The outbound calls of a quote cycle in time (Aggregator.fetchSolverQuote)
\* ------------------------------------------------------------------------
\* config.quoteTimeoutMs.
quoteTimeoutMs == 2000

\* The steps by which the clock advances.
ClockSteps == {1000, 2000}

pendingCall(call) == call.pc \in {"dns", "fetch"}
settledCall(call) == call.pc \in {"fulfilled", "rejected"}

\* getQuote maps fetchSolverQuote over the solvers: every call starts and
\* awaits validateSolverUrlAtRequestTime.
dispatchCalls ==
  /\ \A i \in CallSlots : solverCalls[i].pc = "idle"
  /\ solverCalls' = [i \in CallSlots |-> [NoCall EXCEPT !.pc = "dns", !.dispatched = clock]]
  /\ UNCHANGED <<engineVars, guardVars, fillerVars, quoteServerVars, monitorVars,
                 solverRows, registrations, lastQuote, clock>>

\* setTimeout(() => controller.abort(), config.quoteTimeoutMs) at time t.
timerOf(call, t) == t + quoteTimeoutMs

\* The DNS check returns: when it is not ok the call throws, when it is the
\* abort timer is set and the request is sent.
dnsCheckReturns(i, ok) ==
  /\ solverCalls[i].pc = "dns"
  /\ solverCalls' = [solverCalls EXCEPT ![i] =
       IF ok THEN [@ EXCEPT !.pc = "fetch", !.timer = timerOf(@, clock)]
       ELSE [@ EXCEPT !.pc = "rejected", !.ended = clock]]
  /\ UNCHANGED <<engineVars, guardVars, fillerVars, quoteServerVars, monitorVars,
                 solverRows, registrations, lastQuote, clock>>

\* The solver answers before the timer fires: the call returns the body, or
\* throws (status, network error, a body that is not JSON); the timer is
\* cleared.
fetchReturns(i, outcome) ==
  /\ solverCalls[i].pc = "fetch"
  /\ clock <= solverCalls[i].timer
  /\ solverCalls' = [solverCalls EXCEPT ![i] =
       [@ EXCEPT !.pc = outcome, !.timer = -1, !.ended = clock]]
  /\ UNCHANGED <<engineVars, guardVars, fillerVars, quoteServerVars, monitorVars,
                 solverRows, registrations, lastQuote, clock>>

\* The timer fires: the request is aborted and the call throws.
abortCall(i) ==
  /\ solverCalls[i].pc = "fetch"
  /\ clock >= solverCalls[i].timer
  /\ solverCalls' = [solverCalls EXCEPT ![i] =
       [@ EXCEPT !.pc = "rejected", !.timer = -1, !.ended = clock]]
  /\ UNCHANGED <<engineVars, guardVars, fillerVars, quoteServerVars, monitorVars,
                 solverRows, registrations, lastQuote, clock>>

\* Time passes while calls are pending, up to the next timer that is set.
tickClock(d) ==
  /\ clock + d <= MaxClock
  /\ \E i \in CallSlots : pendingCall(solverCalls[i])
  /\ \A i \in CallSlots : solverCalls[i].pc = "fetch" => clock + d <= solverCalls[i].timer
  /\ clock' = clock + d
  /\ UNCHANGED <<engineVars, guardVars, fillerVars, quoteServerVars, monitorVars,
                 solverRows, registrations, lastQuote, solverCalls>>

\* Promise.allSettled resolves when every call has settled: getQuote goes on
\* with the responses.
allSettled ==
  /\ \A i \in CallSlots : settledCall(solverCalls[i])
  /\ solverCalls' = [i \in CallSlots |-> NoCall]
  /\ UNCHANGED <<engineVars, guardVars, fillerVars, quoteServerVars, monitorVars,
                 solverRows, registrations, lastQuote, clock>>

NextFanOut ==
  \/ dispatchCalls
  \/ \E i \in CallSlots, ok \in BOOLEAN : dnsCheckReturns(i, ok)
  \/ \E i \in CallSlots, outcome \in {"fulfilled", "rejected"} : fetchReturns(i, outcome)
  \/ \E i \in CallSlots : abortCall(i)
  \/ \E d \in ClockSteps : tickClock(d)
  \/ allSettled

SpecFanOut == Init /\ [][NextFanOut]_vars

\* ------------------------------------------------------------------------
\*  Properties
\* ------------------------------------------------------------------------
RECURSIVE SumOver(_, _)
\* The sum of f[x] over the set S.
SumOver(f, S) ==
  IF S = {} THEN 0
  ELSE LET x == CHOOSE y \in S : TRUE IN f[x] + SumOver(f, S \ {x})

\* The DEPOSITED orders whose input token is token.
DepositedIn(token) ==
  {id \in QuoteIds : orders[id].state = "DEPOSITED" /\ orders[id].inputToken = token}

\* The sum of the stored inputAmount of the DEPOSITED orders in token.
SumDeposited(token) ==
  SumOver([id \in QuoteIds |-> orders[id].inputAmount], DepositedIn(token))

\* The quote passes every check of validation that neither the nonce nor the
\* clock decides.
WellFormed(q) ==
  /\ q.user # ZERO_ADDRESS
  /\ q.inputAmount > 0 /\ q.outputAmount >= MIN_ORDER
  /\ q.fillDeadline > q.depositDeadline
  /\ q.outputChainId = CHAIN_ID
  /\ q.signer = q.solver

\* C1: for every solver, reservedBond <= totalBond in every reachable state.
C1_ReservedWithinTotal ==
  \A a \in Accounts : solvers[a].reservedBond <= solvers[a].totalBond

\* C2: for every input token, the engine's balance of the token is at least
\* the sum of the stored inputAmount of the DEPOSITED orders in that token.
C2_EngineHoldsDeposits ==
  \A t \in InputTokens : balanceOf[t][FIRM_SWAP] >= SumDeposited(t)

\* C3: an order's state changes only along NONE -> DEPOSITED,
\* NONE -> SETTLED, NONE -> REFUNDED, DEPOSITED -> SETTLED and
\* DEPOSITED -> REFUNDED; a SETTLED or REFUNDED order keeps its state.
C3_OrderLifecycle ==
  [][\A id \in QuoteIds :
       \/ orders'[id].state = orders[id].state
       \/ orders[id].state = "NONE"
            /\ orders'[id].state \in {"DEPOSITED", "SETTLED", "REFUNDED"}
       \/ orders[id].state = "DEPOSITED"
            /\ orders'[id].state \in {"SETTLED", "REFUNDED"}]_vars

\* C3 witness: past every fill deadline one order is SETTLED, another
\* REFUNDED and a third still DEPOSITED, so refund is enabled while terminal
\* orders exist.
C3_Witness ==
  /\ \E id \in QuoteIds : orders[id].state = "SETTLED"
  /\ \E id \in QuoteIds : orders[id].state = "REFUNDED"
  /\ \E id \in QuoteIds : orders[id].state = "DEPOSITED"
  /\ \A id \in QuoteIds : now > Quotes[id].fillDeadline

\* The bits of the bitmap that are set stay set.
NoncesStayUsed ==
  \A a \in Accounts : nonceBitmap[a] \subseteq nonceBitmap'[a]

\* Every entry point that takes a quote rejects quote id, and a well-formed
\* quote of a registered solver is rejected for its nonce.
RejectedForNonce(id) ==
  LET q == Quotes[id]
      byNonce == WellFormed(q) /\ solvers[q.solver].registered
      Rejects(err) == err # "OK" /\ (byNonce => err = "NonceAlreadyUsed")
  IN /\ \A a \in Accounts : Rejects(depositErr(a, id))
     /\ \A a \in Accounts, t \in Tokens : Rejects(depositWithPermit2Err(a, id, t))
     /\ \A a \in Accounts : openForErr(a, id) # "OK"
     /\ \A a \in Accounts :
          byNonce /\ now <= q.depositDeadline => openForErr(a, id) = "NonceAlreadyUsed"
     /\ Rejects(settleErr(id))
     /\ \A amt \in 1..q.inputAmount : Rejects(settleWithToleranceErr(id, amt))
     /\ Rejects(refundAddressDepositErr(id))
     /\ \A t \in Tokens \ {q.inputToken} : Rejects(deployAndRecoverErr(id, t))

\* C4: a nonce that is used for a solver stays used; every order-creating
\* call and every cancellation uses the nonce; no deposit, depositWithPermit2,
\* openFor, settle, settleWithTolerance, refundAddressDeposit or
\* deployAndRecover with a quote of a used (solver, nonce) succeeds, and an
\* otherwise valid one is rejected with NonceAlreadyUsed.
C4_UsedNonceStaysUsed ==
  /\ [][NoncesStayUsed]_vars
  /\ [](\A id \in QuoteIds :
          /\ orders[id].state # "NONE" => isNonceUsed(Quotes[id].solver, Quotes[id].nonce)
          /\ isNonceUsed(Quotes[id].solver, Quotes[id].nonce) => RejectedForNonce(id))

\* C4 witness: an order consumed nonce 0 while the deposit address of another
\* quote with the same nonce is funded in full, past the fill deadline; and a
\* nonce was cancelled.
C4_Witness ==
  /\ orders[4].state # "NONE"
  /\ balanceOf["BRLA"][computeDepositAddress(1)] >= Quotes[1].inputAmount
  /\ now > Quotes[1].fillDeadline
  /\ isNonceUsed("solver", 1)
  /\ orders[2].state = "NONE"

\* C5: for every order in DEPOSITED, at every time after its fillDeadline,
\* refund(orderId) from any account succeeds (and moves the order to REFUNDED,
\* paying the stored inputAmount to the user).
C5_RefundAlwaysPossible ==
  \A id \in QuoteIds, a \in Accounts :
    orders[id].state = "DEPOSITED" /\ now > orders[id].fillDeadline
      => refundErr(a, id) = "OK"

\* C6: for every quote validly signed by a registered solver whose deposit
\* address holds a nonzero balance of the input token and that has no order
\* record, at every time after fillDeadline refundAddressDeposit succeeds.
C6_AddressRefundAlwaysPossible ==
  \A id \in QuoteIds :
    LET q == Quotes[id] IN
    /\ WellFormed(q)
    /\ solvers[q.solver].registered
    /\ balanceOf[q.inputToken][computeDepositAddress(computeOrderId(id))] > 0
    /\ orders[computeOrderId(id)].state = "NONE"
    /\ now > q.fillDeadline
    => refundAddressDepositErr(id) = "OK"

\* C7: whenever an address-deposit quote whose deposit address held at least
\* quote.inputAmount of the input token when fillDeadline passed goes to
\* REFUNDED, the solver's totalBond is reduced by the slash for that order.
C7_FullyFundedRefundSlashes ==
  [][\A id \in QuoteIds :
       LET q == Quotes[id] IN
       /\ orders[id].state = "NONE"
       /\ orders'[id].state = "REFUNDED"
       /\ id \in fundedAtFillDeadline
       => solvers'[q.solver].totalBond
            = solvers[q.solver].totalBond - Slashed(solvers[q.solver], q.outputAmount)]_vars

\* C8: while one state-mutating entry point is making an external call, no
\* state-mutating entry point of the engine is entered: at most one is in
\* flight in a call chain.
C8_NoReentrancy == Len(callStack) <= 1

C10_RefundSlashesFivePercent ==
  [][\A id \in QuoteIds :
       orders[id].state = "DEPOSITED" /\ orders'[id].state = "REFUNDED"
       => /\ solvers'[orders[id].solver].totalBond
               = solvers[orders[id].solver].totalBond - Reservation(orders[id].outputAmount)
          /\ balanceOf'[BOND_TOKEN][orders[id].user]
               = balanceOf[BOND_TOKEN][orders[id].user] + Reservation(orders[id].outputAmount)]_vars

\* C11: every order a deposit or depositWithPermit2 creates stores as
\* inputAmount what the engine received of quote.inputToken in that call (its
\* balance of the token after the call minus before).
C11_StoredInputIsReceived ==
  [][\A id \in QuoteIds :
       orders[id].state = "NONE" /\ orders'[id].state = "DEPOSITED"
       => orders'[id].inputAmount
            = balanceOf'[Quotes[id].inputToken][FIRM_SWAP]
                - balanceOf[Quotes[id].inputToken][FIRM_SWAP]]_vars

\* C12: a registered solver has totalBond >= MIN_BOND in every state.
C12_RegisteredHasMinBond ==
  \A a \in Accounts : solvers[a].registered => solvers[a].totalBond >= MIN_BOND

\* C13: while an unstake is pending, totalBond - unstakeAmount >= MIN_BOND.
C13_PendingUnstakeLeavesMinBond ==
  \A a \in Accounts :
    solvers[a].unstakeAmount > 0
      => solvers[a].totalBond - solvers[a].unstakeAmount >= MIN_BOND

\* A refundAddressDeposit step for quote id: the order is created REFUNDED
\* and the deposit address's balance of the input token is swept.
RefundAddressDepositStep(id) ==
  LET q == Quotes[id]
      depositAddr == computeDepositAddress(computeOrderId(id))
  IN /\ orders[id].state = "NONE" /\ orders'[id].state = "REFUNDED"
     /\ balanceOf[q.inputToken][depositAddr] > 0
     /\ balanceOf'[q.inputToken][depositAddr] = 0

\* C14: refundAddressDeposit slashes the solver's bond only if the deposit
\* address holds at least quote.inputAmount of the input token. With a
\* smaller balance the order still becomes REFUNDED, the engine passes on to
\* the user all it swept, the user gets no bond token and the solver's
\* totalBond and reservedBond are unchanged; with a full balance the solver's
\* totalBond drops by the slash, which goes to the user.
C14_PartialDepositRefundNoSlash ==
  [][\A id \in QuoteIds :
       LET q == Quotes[id]
           depositBalance == balanceOf[q.inputToken][computeDepositAddress(computeOrderId(id))]
           swept == depositBalance - TransferFee(q.inputToken, depositBalance)
       IN RefundAddressDepositStep(id) =>
            /\ balanceOf'[q.inputToken][FIRM_SWAP] = balanceOf[q.inputToken][FIRM_SWAP]
            /\ balanceOf'[q.inputToken][q.user]
                 = balanceOf[q.inputToken][q.user] + swept - TransferFee(q.inputToken, swept)
            /\ depositBalance < q.inputAmount =>
                 /\ solvers' = solvers
                 /\ balanceOf'[BOND_TOKEN] = balanceOf[BOND_TOKEN]
            /\ depositBalance >= q.inputAmount =>
                 /\ solvers'[q.solver].totalBond
                      = solvers[q.solver].totalBond - Slashed(solvers[q.solver], q.outputAmount)
                 /\ balanceOf'[BOND_TOKEN][q.user]
                      = balanceOf[BOND_TOKEN][q.user] + Slashed(solvers[q.solver], q.outputAmount)]_vars

\* C14 witness: the user sent the fee-charging input of quote 2 to its
\* deposit address, where less than the quoted input arrived; after the fill
\* deadline the order is REFUNDED, the address is swept, the user holds what
\* arrived and the solver's bond is whole.
C14_Witness ==
  /\ orders[2].state = "REFUNDED"
  /\ proxyDeployed[2]
  /\ 2 \notin fundedAtFillDeadline
  /\ balanceOf["FOT"][computeDepositAddress(2)] = 0
  /\ balanceOf["FOT"][FIRM_SWAP] = 0
  /\ balanceOf["FOT"]["user"] = 1
  /\ solvers["solver"].totalBond = MIN_BOND
  /\ solvers["solver"].reservedBond = 0

\* C15: a successful settle or settleWithTolerance (the order of the quote
\* is created SETTLED) leaves the solver's totalBond and reservedBond as they
\* were before the call.
C15_SettleLeavesBond ==
  [][\A id \in QuoteIds :
       orders[id].state = "NONE" /\ orders'[id].state = "SETTLED"
       => /\ solvers'[Quotes[id].solver].totalBond = solvers[Quotes[id].solver].totalBond
          /\ solvers'[Quotes[id].solver].reservedBond
               = solvers[Quotes[id].solver].reservedBond]_vars

\* C15 witness: an address deposit was settled (its proxy is deployed) while
\* another order holds a reservation, and the solver's bond shows only that
\* reservation.
C15_Witness ==
  \E id, other \in QuoteIds :
    /\ orders[id].state = "SETTLED" /\ proxyDeployed[id]
    /\ orders[other].state = "DEPOSITED"
    /\ solvers[Quotes[id].solver].totalBond = MIN_BOND
    /\ solvers[Quotes[id].solver].reservedBond = Reservation(orders[other].outputAmount)

\* C16: a successful settle, whose sweep delivers `received` input tokens to
\* the engine, transfers min(received, quote.inputAmount) to the solver and
\* adds received - min(received, quote.inputAmount) to
\* excessBalances[quote.user][quote.inputToken]; the engine keeps of the
\* sweep exactly the excess it credited.
C16_SettlePaysMinCreditsExcess ==
  [][\A id \in QuoteIds, a \in Accounts :
       LET q == Quotes[id]
           depositBalance == balanceOf[q.inputToken][computeDepositAddress(computeOrderId(id))]
           received == depositBalance - TransferFee(q.inputToken, depositBalance)
           paid == IF received < q.inputAmount THEN received ELSE q.inputAmount
       IN orders[id].state = "NONE" /\ orders'[id].state = "SETTLED" /\ settle(a, id) =>
            /\ balanceOf'[q.inputToken][q.solver]
                 = balanceOf[q.inputToken][q.solver] + paid - TransferFee(q.inputToken, paid)
            /\ excessBalances'[q.user][q.inputToken]
                 = excessBalances[q.user][q.inputToken] + (received - paid)
            /\ balanceOf'[q.inputToken][FIRM_SWAP]
                 = balanceOf[q.inputToken][FIRM_SWAP] + (received - paid)]_vars

\* C16 witness: quote 4 was settled from a deposit address that held more
\* than the quoted input: the solver has the quoted input, the user is
\* credited the rest and the engine holds it.
C16_Witness ==
  /\ orders[4].state = "SETTLED" /\ proxyDeployed[4]
  /\ balanceOf["BRLA"]["solver"] = Quotes[4].inputAmount
  /\ excessBalances["user"]["BRLA"] = 1
  /\ balanceOf["BRLA"][FIRM_SWAP] = 1

\* C17: fill succeeds only on a DEPOSITED order, called by order.solver, at
\* now <= fillDeadline; refund succeeds only on a DEPOSITED order at
\* now > fillDeadline; in no state are fill and refund both enabled for one
\* order; a DEPOSITED order is settled only up to its fillDeadline and
\* refunded only after it, and a filled order is never refunded nor a
\* refunded one filled.
C17_FillRefundExclusive ==
  /\ [](\A id \in QuoteIds, a \in Accounts :
          /\ fillErr(a, id) = "OK"
               => /\ orders[id].state = "DEPOSITED"
                  /\ a = orders[id].solver
                  /\ now <= orders[id].fillDeadline
          /\ refundErr(a, id) = "OK"
               => orders[id].state = "DEPOSITED" /\ now > orders[id].fillDeadline
          /\ \A b \in Accounts : ~(fillErr(a, id) = "OK" /\ refundErr(b, id) = "OK"))
  /\ [][\A id \in QuoteIds :
          /\ orders[id].state = "DEPOSITED" /\ orders'[id].state = "SETTLED"
               => now <= orders[id].fillDeadline
          /\ orders[id].state = "DEPOSITED" /\ orders'[id].state = "REFUNDED"
               => now > orders[id].fillDeadline
          /\ ~(orders[id].state = "SETTLED" /\ orders'[id].state = "REFUNDED")
          /\ ~(orders[id].state = "REFUNDED" /\ orders'[id].state = "SETTLED")]_vars

\* C17 witness: one contract deposit was filled (SETTLED, no proxy) and
\* another was refunded after the fill deadline (REFUNDED, no proxy).
C17_Witness ==
  \E filled, refunded \in QuoteIds :
    /\ orders[filled].state = "SETTLED" /\ ~proxyDeployed[filled]
    /\ orders[refunded].state = "REFUNDED" /\ ~proxyDeployed[refunded]
    /\ now > orders[refunded].fillDeadline

\* C18: for every order in SETTLED or REFUNDED, whichever path brought it
\* there, a DepositProxy is deployed at the order's deposit address and
\* recoverFromProxy succeeds for every token.
C18_ProxyExistsAfterTerminal ==
  \A id \in QuoteIds :
    orders[id].state \in {"SETTLED", "REFUNDED"}
      => /\ proxyDeployed[id]
         /\ \A t \in Tokens : recoverFromProxyErr(id, t) = "OK"

\* C19: executeUnstake succeeds only if an unstake is pending and at least
\* UNSTAKE_DELAY has passed since the requestUnstake that created it: a
\* request sets the unlock time to now + UNSTAKE_DELAY, a pending request
\* keeps its amount and unlock time, and the step that pays a pending
\* request out happens at or after the unlock time, takes exactly the
\* pending amount off totalBond, pays it to the solver and clears the request.
C19_ExecuteUnstakeAfterDelay ==
  /\ [](\A a \in Accounts :
          executeUnstakeErr(a) = "OK"
            => solvers[a].unstakeAmount > 0 /\ now >= solvers[a].unstakeTimestamp)
  /\ [][\A a \in Accounts :
          /\ solvers[a].unstakeAmount = 0 /\ solvers'[a].unstakeAmount > 0
               => solvers'[a].unstakeTimestamp = now + UNSTAKE_DELAY
          /\ solvers[a].unstakeAmount > 0 /\ solvers'[a].unstakeAmount > 0
               => /\ solvers'[a].unstakeAmount = solvers[a].unstakeAmount
                  /\ solvers'[a].unstakeTimestamp = solvers[a].unstakeTimestamp
          /\ /\ solvers[a].unstakeAmount > 0 /\ solvers'[a].unstakeAmount = 0
             /\ \/ solvers'[a].totalBond # solvers[a].totalBond
                \/ balanceOf'[BOND_TOKEN][a] # balanceOf[BOND_TOKEN][a]
             => /\ now >= solvers[a].unstakeTimestamp
                /\ solvers'[a].totalBond = solvers[a].totalBond - solvers[a].unstakeAmount
                /\ balanceOf'[BOND_TOKEN][a]
                     = balanceOf[BOND_TOKEN][a] + solvers[a].unstakeAmount
                /\ balanceOf'[BOND_TOKEN][FIRM_SWAP]
                     = balanceOf[BOND_TOKEN][FIRM_SWAP] - solvers[a].unstakeAmount
                /\ solvers'[a].unstakeTimestamp = 0]_vars

\* C19 witness: UNSTAKE_DELAY after the start the solver, who bonded twice
\* MIN_BOND to request an unstake of MIN_BOND, has MIN_BOND left in the bond
\* and the rest in hand with no request pending, and no bond or output
\* token ever went to the user: the unstake was executed.
C19_Witness ==
  /\ now >= 100 + UNSTAKE_DELAY
  /\ solvers["solver"].totalBond = MIN_BOND
  /\ solvers["solver"].unstakeAmount = 0
  /\ balanceOf[BOND_TOKEN]["solver"] = MIN_BOND + 2 * MIN_ORDER
  /\ balanceOf[BOND_TOKEN]["user"] = 0

\* C20: at any time at most one fill job (balance and allowance reads,
\* optional approval, fill transaction and the wait for its receipt) is in
\* progress, however the Deposited events arrive between the steps of the
\* running jobs.
C20_FillerSerial == Cardinality(inProgress) <= 1

\* C20 witness: three fills were chained; the first has returned, the second
\* waits for its fill receipt and the third, which arrived meanwhile, is
\* still queued.
C20_Witness ==
  /\ Len(fillJobs) = 3
  /\ fillJobs[1].pc = "done"
  /\ fillJobs[2].pc = "fillReceipt"
  /\ fillJobs[3].pc = "queued"

\* The solver's orders currently in DEPOSITED.
DepositedOf(a) ==
  {id \in QuoteIds : orders[id].state = "DEPOSITED" /\ orders[id].solver = a}

\* C28: for every solver, reservedBond equals the sum of
\* outputAmount * 500 / 10000 over that solver's orders in DEPOSITED.
C28_ReservedIsSumOfDeposited ==
  \A a \in Accounts :
    solvers[a].reservedBond
      = SumOver([id \in QuoteIds |-> Reservation(orders[id].outputAmount)], DepositedOf(a))

\* C29: for every order in DEPOSITED, at every time now <= fillDeadline, a
\* fill by order.solver, who holds outputAmount of the output token, succeeds
\* (the engine holding the order's stored input): the solver's bond
\* accounting never makes it revert.
C29_SolverCanFillInTime ==
  \A id \in QuoteIds :
    /\ orders[id].state = "DEPOSITED"
    /\ now <= orders[id].fillDeadline
    /\ balanceOf[orders[id].outputToken][orders[id].solver] >= orders[id].outputAmount
    /\ balanceOf[orders[id].inputToken][FIRM_SWAP] >= orders[id].inputAmount
    => fillErr(orders[id].solver, id) = "OK"

\* What the engine owes in token: the stored input of the DEPOSITED orders,
\* the excess credited to users and, in the bond token, the solvers' bonds.
Owed(token) ==
  SumDeposited(token)
    + SumOver([a \in Accounts |-> excessBalances[a][token]], Accounts)
    + (IF token = BOND_TOKEN
       THEN SumOver([a \in Accounts |-> solvers[a].totalBond], Accounts) ELSE 0)

\* C30: for every token, the engine's balance of it is at least the sum of
\* inputAmount of the DEPOSITED orders in it, plus the excess balances in it,
\* plus (for the bond token) the sum of totalBond over all solvers.
C30_EngineSolvent ==
  \A t \in Tokens : balanceOf[t][FIRM_SWAP] >= Owed(t)

\* C21: after initialization, successive nonce allocations return strictly
\* increasing (hence pairwise distinct) nonces, each at least the nonce the
\* initialization found, and no two quotes the server signs carry the same
\* nonce, however the /quote requests interleave.
C21_NoncesStrictlyIncreasing ==
  /\ \A i, j \in DOMAIN issuedNonces : i < j => issuedNonces[i] < issuedNonces[j]
  /\ \A i \in DOMAIN issuedNonces : issuedNonces[i] < nextNonce
  /\ \A i, j \in DOMAIN quoteRequests :
       /\ i # j
       /\ quoteRequests[i].pc \in {"signQuote", "200"}
       /\ quoteRequests[j].pc \in {"signQuote", "200"}
       => quoteRequests[i].nonce # quoteRequests[j].nonce

\* C21 witness: the scan started the counter past nonces used on chain; three
\* requests were in flight together, the second took its nonce before the
\* first and is answered while the first and the third await their signature.
C21_Witness ==
  /\ Len(quoteRequests) = 3
  /\ Len(issuedNonces) = 3
  /\ issuedNonces[1] > 0
  /\ quoteRequests[2].pc = "200"
  /\ quoteRequests[1].pc = "signQuote"
  /\ quoteRequests[3].pc = "signQuote"
  /\ quoteRequests[2].nonce < quoteRequests[1].nonce
  /\ quoteRequests[1].nonce < quoteRequests[3].nonce

\* The Deposited events of this solver in the blocks mined so far after the
\* block the monitor started at.
WatchedEvents ==
  {e \in UNION {{chainLogs[b][k] : k \in DOMAIN chainLogs[b]} :
                  b \in (startBlock + 1)..Len(chainLogs)} :
     pollTimer /\ e.solver = solverAddress}

\* C22: the deposit watcher skips no block: every Deposited event of a block
\* after the one the monitor started at that names this solver is eventually
\* handed to the filler, provided polling continues; the events of the blocks
\* up to lastBlock have all been handed; and an event handed while its
\* fillDeadline is later than the filler's clock is enqueued as a fill job.
C22_NoBlockSkipped ==
  /\ \A b \in 1..MaxBlock, d \in {99, 101} :
       LET e == [orderId |-> b, solver |-> solverAddress, fillDeadline |-> d]
       IN (e \in WatchedEvents) ~> (e \in handed)
  /\ [](\A e \in WatchedEvents : e.orderId <= lastBlock => e \in handed)
  /\ [][\A p \in PollSlots :
          /\ handEvent(p)
          /\ Head(polls[p].logs).solver = solverAddress
          /\ Head(polls[p].logs).fillDeadline > now
          => /\ Len(fillJobs') = Len(fillJobs) + 1
             /\ fillJobs'[Len(fillJobs')].orderId = Head(polls[p].logs).orderId
             /\ fillJobs'[Len(fillJobs')].pc = "queued"
             /\ Head(polls[p].logs).orderId \in pendingFills']_vars

\* C22 witness: after the monitor started two blocks were mined, whose
\* events name this solver; one poll fetched both, handed both and set
\* lastBlock to the head; the event that had not expired is a fill job.
C22_Witness ==
  /\ pollTimer /\ startBlock = 0 /\ Len(chainLogs) = 2 /\ lastBlock = 2
  /\ chainLogs[1] = <<[orderId |-> 1, solver |-> solverAddress, fillDeadline |-> 99]>>
  /\ chainLogs[2] = <<[orderId |-> 2, solver |-> solverAddress, fillDeadline |-> 101]>>
  /\ handed = {chainLogs[1][1], chainLogs[2][1]}
  /\ depositedSeen = 2
  /\ Len(fillJobs) = 1 /\ fillJobs[1].orderId = 2

\* The rows of the solvers registered on a chain.
RegisteredOn(chainId) == {row \in solverRows : row.chain_id = chainId}

\* C23: the number of solvers registered for a chain never exceeds the
\* configured per-chain maximum, also with several register calls in flight.
C23_RegisteredWithinMax ==
  \A c \in Chains : Cardinality(RegisteredOn(c)) <= maxSolvers

\* C24: a solver registered only on chain A is never returned by getSolver
\* or getActiveSolvers of chain B, what they return are rows of their own
\* chain, register, unregister and setSolverActive of one chain leave the
\* rows of the other chains as they are, and no two rows share an address
\* and a chain.
C24_RegistryScoped ==
  /\ [](\A cA \in Chains, cB \in Chains, a \in ApiAddresses :
          /\ cA # cB
          /\ (\E row \in RegisteredOn(cA) : row.address = toLowerCase(a))
          /\ ~(\E row \in RegisteredOn(cB) : row.address = toLowerCase(a))
          => /\ getSolver(a, cB) = {}
             /\ \A row \in getActiveSolvers(cB) : row.address # toLowerCase(a))
  /\ [](\A c \in Chains, a \in ApiAddresses :
          /\ getSolver(a, c) \subseteq RegisteredOn(c)
          /\ getActiveSolvers(c) \subseteq RegisteredOn(c)
          /\ Cardinality(getSolver(a, c)) <= 1)
  /\ [][\A c \in Chains, a \in ApiAddresses :
          \/ \E r \in RegisterSlots : register(r, a, c, "http://old", "OldName", 1000)
          \/ \E r \in RegisterSlots, result \in BondReads :
               registrations[r].chainId = c /\ verifyBondReturns(r, result, 1000)
          \/ unregister(a, c)
          \/ \E active \in BOOLEAN : setSolverActive(a, active, c)
          => \A other \in Chains \ {c} :
               {row \in solverRows' : row.chain_id = other} = RegisteredOn(other)]_vars

\* C24 witness: an address was registered on both chains and unregistered
\* on one, another only on the other chain where it was then deactivated.
C24_Witness ==
  /\ {<<row.address, row.chain_id, row.active>> : row \in solverRows}
       = {<<"0xa", CHAIN_ID, TRUE>>, <<"0xb", 10200, FALSE>>}
  /\ getSolver("0xA", CHAIN_ID) # {}
  /\ getSolver("0xA", 10200) = {}

\* The verified responses of the cycle lastQuote records.
VerifiedOfCycle ==
  verifiedQuotes(collectQuotes(lastQuote.responses, lastQuote.request, lastQuote.now))

\* C25: the best quote getQuote returns is one of the cycle's verified
\* responses and none of them is better: for EXACT_INPUT none has a larger
\* outputAmount, for EXACT_OUTPUT none has a smaller inputAmount.
C25_BestIsOptimal ==
  lastQuote.outcome = "ok" =>
    /\ \E i \in 1..Len(VerifiedOfCycle) : VerifiedOfCycle[i].quote = lastQuote.quote
    /\ \A i \in 1..Len(VerifiedOfCycle) :
         IF lastQuote.request.orderType = "EXACT_INPUT"
         THEN BigInt(VerifiedOfCycle[i].quote.outputAmount) <= BigInt(lastQuote.quote.outputAmount)
         ELSE BigInt(VerifiedOfCycle[i].quote.inputAmount) >= BigInt(lastQuote.quote.inputAmount)

\* C25 witness: an EXACT_OUTPUT cycle with three verified responses, the
\* first to arrive asking 7; the best returned asks 5, and both others are
\* alternatives.
C25_Witness ==
  /\ lastQuote.outcome = "ok"
  /\ lastQuote.request.orderType = "EXACT_OUTPUT"
  /\ Len(VerifiedOfCycle) = 3
  /\ BigInt(VerifiedOfCycle[1].quote.inputAmount) = 7
  /\ BigInt(lastQuote.quote.inputAmount) = 5
  /\ Len(lastQuote.alternativeQuotes) = 2

\* The signatures a response of getQuote carries.
SignaturesReturned ==
  {lastQuote.solverSignature}
    \cup {lastQuote.alternativeQuotes[i].solverSignature :
            i \in 1..Len(lastQuote.alternativeQuotes)}

\* C26: in a response of getQuote every alternative has an empty signature
\* and no deposit address, and the signature of a verified quote other than
\* the best one is nowhere in the response.
C26_OnlyBestSigned ==
  lastQuote.outcome = "ok" =>
    /\ \A i \in 1..Len(lastQuote.alternativeQuotes) :
         /\ lastQuote.alternativeQuotes[i].solverSignature = ""
         /\ lastQuote.alternativeQuotes[i].depositAddress = "undefined"
    /\ \A i \in 1..Len(VerifiedOfCycle) :
         VerifiedOfCycle[i].quote # lastQuote.quote =>
           VerifiedOfCycle[i].signature \notin SignaturesReturned

\* C26 witness: an ADDRESS-mode response whose best quote carries its
\* solver's signature and the deposit address, with two alternatives.
C26_Witness ==
  /\ lastQuote.outcome = "ok"
  /\ lastQuote.request.depositMode = "ADDRESS"
  /\ lastQuote.depositAddress = "0xde"
  /\ lastQuote.solverSignature = SignatureOf(lastQuote.quote.solver)
  /\ Len(lastQuote.alternativeQuotes) = 2
  /\ lastQuote.alternativeQuotes[1].quote.solver # lastQuote.quote.solver

\* A response survives when it is fulfilled with a quote that matches the
\* request (user, tokens, a deposit deadline still ahead, positive amounts)
\* and is signed by its solver.
Survives(result, request, t) ==
  /\ result.status = "fulfilled"
  /\ result.hasQuote
  /\ ~BigIntThrows(result.quote.inputAmount)
  /\ ~BigIntThrows(result.quote.outputAmount)
  /\ matchesRequest(result, request, t)
  /\ verifySignature(result.quote, result.signature)

\* C27: a cycle of getQuote returns a result when at least one response
\* survives, whatever the other solvers answered, and returns none when no
\* response survives or no solver is active.
C27_FailuresNeverAbort ==
  lastQuote.outcome # "idle" =>
    IF \E i \in 1..Len(lastQuote.responses) :
         Survives(lastQuote.responses[i], lastQuote.request, lastQuote.now)
    THEN lastQuote.outcome = "ok"
    ELSE lastQuote.outcome = "none"

\* C31: a settleWithTolerance that succeeds with an acceptedInputAmount
\* smaller than quote.inputAmount was called by quote.solver.
C31_SolverAcceptsLess ==
  [][\A a \in Accounts, id \in QuoteIds : \A amt \in AcceptedAmounts(id) :
       (settleWithTolerance(a, id, amt) /\ amt < Quotes[id].inputAmount)
         => a = Quotes[id].solver]_vars

\* C32: every Deposited log reaches the deposit handler at most once: the
\* handler has been called no more often than there are Deposited logs on
\* the chain, and no two fill jobs are for the same order.
C32_DeliveredOnce ==
  /\ depositedSeen <= Len(getLogs(1, Len(chainLogs)))
  /\ \A i \in 1..Len(fillJobs), j \in 1..Len(fillJobs) :
       fillJobs[i].orderId = fillJobs[j].orderId => i = j

\* C33: a nonce the server takes for signing is unused on chain for the
\* solver at the moment it is taken.
C33_NonceUnusedWhenIssued ==
  [][Len(issuedNonces') > Len(issuedNonces)
       => ~isNonceUsed(solverAddress, issuedNonces'[Len(issuedNonces')])]_vars

\* C34: every call of a cycle ends within quoteTimeoutMs of its dispatch: a
\* settled call ended no later than that, and no pending call is older.
C34_CallsEndInTime ==
  \A i \in CallSlots :
    /\ settledCall(solverCalls[i])
         => solverCalls[i].ended - solverCalls[i].dispatched <= quoteTimeoutMs
    /\ pendingCall(solverCalls[i])
         => clock - solverCalls[i].dispatched <= quoteTimeoutMs

\* The quotes of a response of getQuote in rank order, and the place of a
\* quote among the verified responses in the order they came.
RankedReturned ==
  <<lastQuote.quote>> \o [i \in 1..Len(lastQuote.alternativeQuotes) |->
                            lastQuote.alternativeQuotes[i].quote]
ArrivalOf(quote) ==
  CHOOSE i \in 1..Len(VerifiedOfCycle) : VerifiedOfCycle[i].quote = quote
RankingKey(quote) ==
  IF lastQuote.request.orderType = "EXACT_INPUT"
  THEN BigInt(quote.outputAmount) ELSE BigInt(quote.inputAmount)

\* C35: of two returned quotes with the same ranking key the one that came
\* earlier is ranked ahead; so the best is the earliest of those tied with it.
C35_TiesByArrival ==
  lastQuote.outcome = "ok" =>
    \A i \in 1..Len(RankedReturned), j \in 1..Len(RankedReturned) :
      (i < j /\ RankingKey(RankedReturned[i]) = RankingKey(RankedReturned[j]))
        => ArrivalOf(RankedReturned[i]) < ArrivalOf(RankedReturned[j])

\* C36: the best quote getQuote returns is for the requested size: its
\* inputAmount is the request's amount for EXACT_INPUT, its outputAmount for
\* EXACT_OUTPUT.
C36_BestAnswersRequest ==
  lastQuote.outcome = "ok" =>
    IF lastQuote.request.orderType = "EXACT_INPUT"
    THEN BigInt(lastQuote.quote.inputAmount) = BigInt(lastQuote.request.amount)
    ELSE BigInt(lastQuote.quote.outputAmount) = BigInt(lastQuote.request.amount)

\* C37: every quote getQuote returns, best or alternative, is the quote of a
\* response of the cycle whose signature verifies, the best with that very
\* signature; and a chain with no firmSwapAddress returns no quote.
C37_ReturnedAreVerified ==
  lastQuote.outcome = "ok" =>
    /\ firmSwapConfigured(lastQuote.chainId)
    /\ \A k \in 1..Len(RankedReturned) :
         \E i \in 1..Len(lastQuote.responses) :
           /\ lastQuote.responses[i].status = "fulfilled"
           /\ lastQuote.responses[i].quote = RankedReturned[k]
           /\ verifySignature(RankedReturned[k], lastQuote.responses[i].signature)
           /\ k = 1 => lastQuote.solverSignature = lastQuote.responses[i].signature

\* C37 witness: a cycle in which one solver's quote matches the request but
\* carries a signature that does not verify, and another's verifies: the
\* response holds the second alone.
C37_Witness ==
  /\ lastQuote.outcome = "ok"
  /\ Len(lastQuote.responses) = 2
  /\ Len(collectQuotes(lastQuote.responses, lastQuote.request, lastQuote.now)) = 2
  /\ Len(VerifiedOfCycle) = 1
  /\ lastQuote.alternativeQuotes = <<>>

\* C38: a transaction that creates an order record (the order's state was
\* NONE before it) emits the Open event of that order.
C38_NewOrderEmitsOpen ==
  [][\A orderId \in QuoteIds :
       (orders[orderId].state = "NONE" /\ orders'[orderId].state # "NONE")
         => (orderId \notin openEvents /\ orderId \in openEvents')]_vars

\* The rows of a table for one key.
RowsOf(rows, address, chainId) ==
  {row \in rows : row.address = address /\ row.chain_id = chainId}

\* What C39 asks of an upsert for a key that has a row: one row remains, with
\* the new endpoint and name and the registration time and active flag of
\* the row before.
UpdatedInPlace(address, chainId, endpointUrl, name) ==
  LET before == RowsOf(solverRows, address, chainId)
      after == RowsOf(solverRows', address, chainId)
  IN before # {} =>
       /\ Cardinality(after) = 1
       /\ \A old \in before, new \in after :
            /\ new.endpoint_url = endpointUrl
            /\ new.name = name
            /\ new.registered_at = old.registered_at
            /\ new.active = old.active

\* C39: a register call that succeeds for an (address, chainId) already in
\* the registry updates the row in place: on the chain without a
\* firmSwapAddress when register returns, on the other when the bond check
\* has returned true.
C39_ReRegisterInPlace ==
  [][/\ \A r \in RegisterSlots, result \in BondReads, dateNow \in {1000, 2000} :
          (verifyBondReturns(r, result, dateNow) /\ verifyBond(result))
            => UpdatedInPlace(toLowerCase(registrations[r].address), registrations[r].chainId,
                              registrations[r].endpointUrl, registrations[r].name)
     /\ \A r \in RegisterSlots, a \in {"0xa", "0xA"}, c \in Chains \ {CHAIN_ID},
           endpointUrl \in {"http://old", "http://new"}, name \in {"OldName", "NewName"},
           dateNow \in {1000, 2000} :
          register(r, a, c, endpointUrl, name, dateNow)
            => UpdatedInPlace(toLowerCase(a), c, endpointUrl, name)]_vars

\* The jobs whose fill is over.
finished(i) == fillJobs[i].pc \notin FillSteps \cup {"queued"}

\* C40: a job that fails does not stall the fill queue: a queued job whose
\* earlier jobs have all finished can be started, and every enqueued job is
\* eventually started, given that each RPC call returns or throws.
C40_QueueNeverStalls ==
  /\ [](\A i \in 1..MaxDeposited :
          (/\ i \in DOMAIN fillJobs
           /\ fillJobs[i].pc = "queued"
           /\ \A j \in 1..(i - 1) : finished(j))
            => ENABLED startFill(i))
  /\ \A i \in 1..MaxDeposited :
       (i \in DOMAIN fillJobs) ~> (i \in DOMAIN fillJobs /\ fillJobs[i].pc # "queued")

\* C40 witness: the first job's fill is over without a confirmed fill (its
\* order is still pending), and the job queued after it has been started.
C40_Witness ==
  /\ Len(fillJobs) = 2
  /\ fillJobs[1].orderId = 1 /\ fillJobs[1].pc = "done" /\ 1 \in pendingFills
  /\ fillJobs[2].orderId = 3 /\ fillJobs[2].pc = "balanceOf"

====
